---- MODULE Spec2Model ----
(***************************************************************************)
(* A model of the Light Up engine of src/lightup.c: the grid state with    *)
(* its incrementally maintained lit counts, the deductive solver with      *)
(* bounded guessing, the descriptor decoder, the move executor and the     *)
(* solve-for-user operation.                                               *)
(*                                                                         *)
(* Strings of the program (move strings, descriptors) are sequences of     *)
(* one-character strings; a flag word is the set of the flag bits it has.  *)
(***************************************************************************)
EXTENDS Integers, Sequences, FiniteSets, TLC

\* ------------------------------------------------------------------ flags
F_BLACK == "F_BLACK"
F_NUMBERED == "F_NUMBERED"
F_NUMBERUSED == "F_NUMBERUSED"
F_IMPOSSIBLE == "F_IMPOSSIBLE"
F_LIGHT == "F_LIGHT"
F_MARK == "F_MARK"

\* The null game_state pointer (execute_move's "no state").
NULL == [null |-> TRUE]
\* The null string pointer (solve_game's and interpret_move's "no move").
NULLSTR == <<"NULL">>
\* The null int pointer handed to dosolve as maxdepth.
NODEPTH == -1
\* The byte that ends a C string.
NUL == "NUL"

\* ------------------------------------------------------------ state access
\* Index of (x,y) in a plane of a state: the GRID macro.
GRID(state, x, y) == y * state.w + x

Cells(state) == 0 .. (state.w * state.h - 1)
CellX(state, i) == i % state.w
CellY(state, i) == i \div state.w

flagsAt(state, x, y) == state.flags[GRID(state, x, y)]
lightsAt(state, x, y) == state.lights[GRID(state, x, y)]

\* The k-th cell (k from 0) of the nest "for x ... for y ...": <<x, y>>.
ScanXY(state, k) == <<k \div state.h, k % state.h>>

\* |= on one cell's flag word
or_flag(state, x, y, f) ==
    [state EXCEPT !.flags[GRID(state, x, y)] = @ \cup {f}]
\* &= ~ on one cell's flag word
clear_flag(state, x, y, f) ==
    [state EXCEPT !.flags[GRID(state, x, y)] = @ \ {f}]

\* No assert() of the program has failed on this state.
RUNNING == "running"
\* An assert() of the program failed while working on this state: abort
\* names the first one that did.
assert_fail(state, what) ==
    IF state.abort = RUNNING THEN [state EXCEPT !.abort = what] ELSE state

new_state(w, h) ==
    [w |-> w, h |-> h, nlights |-> 0,
     lights |-> [i \in 0 .. (w * h - 1) |-> 0],
     flags |-> [i \in 0 .. (w * h - 1) |-> {}],
     completed |-> FALSE, used_solve |-> FALSE, abort |-> RUNNING]

\* A copy that leaves the marks behind: the fault that shows C29 depends
\* on dup_game.
dup_game_unmarked(state) ==
    [state EXCEPT !.flags = [k \in DOMAIN @ |-> @[k] \ {F_LIGHT, F_IMPOSSIBLE}]]

\* A deep copy: a record value is its own copy.
dup_game(state) == state

\* The cells around (ox,oy), in ADDPOINT order, clipped at the edges.
get_surrounds(state, ox, oy) ==
    (IF ox > 0 THEN <<(<<ox - 1, oy>>)>> ELSE <<>>)
    \o (IF ox < state.w - 1 THEN <<(<<ox + 1, oy>>)>> ELSE <<>>)
    \o (IF oy > 0 THEN <<(<<ox, oy - 1>>)>> ELSE <<>>)
    \o (IF oy < state.h - 1 THEN <<(<<ox, oy + 1>>)>> ELSE <<>>)

\* ------------------------------------------------------------ completion
grid_lit(state) ==
    \A i \in Cells(state) :
        F_BLACK \in state.flags[i] \/ state.lights[i] # 0

\* grid_overlap that takes any white cell lit more than once for an
\* overlap: the fault that shows C20 depends on grid_overlap.
grid_overlap_lit_twice(state) ==
    \E i \in Cells(state) :
        F_BLACK \notin state.flags[i] /\ state.lights[i] > 1

grid_overlap(state) ==
    \E i \in Cells(state) :
        F_LIGHT \in state.flags[i] /\ state.lights[i] > 1

\* Number of elements of a sequence of cells whose flag word has f.
RECURSIVE CountFlag(_, _, _)
CountFlag(state, pts, f) ==
    IF pts = <<>> THEN 0
    ELSE (IF f \in flagsAt(state, Head(pts)[1], Head(pts)[2]) THEN 1 ELSE 0)
         + CountFlag(state, Tail(pts), f)

number_correct(state, x, y) ==
    CountFlag(state, get_surrounds(state, x, y), F_LIGHT) = lightsAt(state, x, y)

grid_addsup(state) ==
    \A i \in Cells(state) :
        F_NUMBERED \in state.flags[i]
            => number_correct(state, CellX(state, i), CellY(state, i))

grid_correct(state) ==
    grid_lit(state) /\ ~grid_overlap(state) /\ grid_addsup(state)

\* ------------------------------------------------------------- light lines
Min(S) == CHOOSE m \in S : \A n \in S : m <= n
Max(S) == CHOOSE m \in S : \A n \in S : m >= n

IsBlackAt(state, x, y) == F_BLACK \in flagsAt(state, x, y)

\* Walks that go through the black cells to the edges: the fault that shows
\* C30 depends on list_lights.
list_lights_through(state, ox, oy, origin) ==
    [ox |-> ox, oy |-> oy, include_origin |-> origin,
     minx |-> 0, maxx |-> state.w - 1, miny |-> 0, maxy |-> state.h - 1]

\* The extents of the walks left, right, up and down from (ox,oy), each
\* stopping before the first black cell or at the edge.
list_lights(state, ox, oy, origin) ==
    [ox |-> ox, oy |-> oy, include_origin |-> origin,
     minx |-> Min({x \in 0 .. ox :
                     \A k \in x .. (ox - 1) : ~IsBlackAt(state, k, oy)}),
     maxx |-> Max({x \in ox .. (state.w - 1) :
                     \A k \in (ox + 1) .. x : ~IsBlackAt(state, k, oy)}),
     miny |-> Min({y \in 0 .. oy :
                     \A k \in y .. (oy - 1) : ~IsBlackAt(state, ox, k)}),
     maxy |-> Max({y \in oy .. (state.h - 1) :
                     \A k \in (oy + 1) .. y : ~IsBlackAt(state, ox, k)})]

\* The cells FOREACHLIT visits, in its order: the row without the origin,
\* then the column, with the origin when include_origin is set.
RECURSIVE RowPart(_, _)
RowPart(lld, lx) ==
    IF lx > lld.maxx THEN <<>>
    ELSE (IF lx = lld.ox THEN <<>> ELSE <<(<<lx, lld.oy>>)>>)
         \o RowPart(lld, lx + 1)

RECURSIVE ColPart(_, _)
ColPart(lld, ly) ==
    IF ly > lld.maxy THEN <<>>
    ELSE (IF ~lld.include_origin /\ ly = lld.oy
          THEN <<>> ELSE <<(<<lld.ox, ly>>)>>)
         \o ColPart(lld, ly + 1)

FOREACHLIT(lld) == RowPart(lld, lld.minx) \o ColPart(lld, lld.miny)

\* The flag and the count of set_light on a white cell whose light changes.
toggle_light(state, ox, oy, on) ==
    IF on
    THEN [or_flag(state, ox, oy, F_LIGHT) EXCEPT !.nlights = @ + 1]
    ELSE [clear_flag(state, ox, oy, F_LIGHT) EXCEPT !.nlights = @ - 1]

\* FOREACHLIT(lights += diff) over the cells lit, in order.
RECURSIVE add_lights(_, _, _)
add_lights(state, lit, diff) ==
    IF lit = <<>> THEN state
    ELSE add_lights([state EXCEPT
                        !.lights[GRID(state, Head(lit)[1], Head(lit)[2])] = @ + diff],
                    Tail(lit), diff)

\* light_lines with the origin left out of the cells lit: the fault that
\* shows C1 depends on light_lines.
light_lines_no_origin(state, ox, oy, diff) ==
    add_lights(state, FOREACHLIT(list_lights(state, ox, oy, FALSE)), diff)

\* The if (diff != 0) block of set_light.
light_lines(state, ox, oy, diff) ==
    add_lights(state, FOREACHLIT(list_lights(state, ox, oy, TRUE)), diff)

set_light(state, ox, oy, on) ==
    IF IsBlackAt(state, ox, oy) THEN assert_fail(state, "set_light")
    ELSE IF on = (F_LIGHT \in flagsAt(state, ox, oy)) THEN state
    ELSE light_lines(toggle_light(state, ox, oy, on), ox, oy,
                     IF on THEN 1 ELSE -1)

\* -------------------------------------------------------- descriptor codec
Letters ==
    <<"a", "b", "c", "d", "e", "f", "g", "h", "i", "j", "k", "l", "m",
      "n", "o", "p", "q", "r", "s", "t", "u", "v", "w", "x", "y", "z">>
IsLetter(c) == \E k \in 1 .. Len(Letters) : Letters[k] = c
\* c - 'a' + 1 for a letter c
LetterOrd(c) == CHOOSE k \in 1 .. Len(Letters) : Letters[k] = c

Digits == <<"0", "1", "2", "3", "4", "5", "6", "7", "8", "9">>
IsDigit(c) == \E k \in 1 .. Len(Digits) : Digits[k] = c
\* c - '0' for a digit c
DigitVal(c) == (CHOOSE k \in 1 .. Len(Digits) : Digits[k] = c) - 1

\* The character at position p (from 1) of a C string: NUL at its end.
CharAt(str, p) == IF p <= Len(str) THEN str[p] ELSE NUL

RECURSIVE new_game_loop(_, _, _, _, _)
\* The switch of new_game on the character c read for cell k, when no run
\* of white cells is owed; p is the read position after c.
new_game_cell(ret, desc, k, p, c) ==
    IF c = "S" THEN assert_fail(ret, "c != 'S'")
    ELSE IF IsLetter(c)
    THEN new_game_loop(ret, desc, k + 1, p, LetterOrd(c) - 1)
    ELSE IF c \in {"0", "1", "2", "3", "4"}
    THEN new_game_loop(
             [or_flag(or_flag(ret, k % ret.w, k \div ret.w, F_NUMBERED),
                      k % ret.w, k \div ret.w, F_BLACK)
                 EXCEPT !.lights[k] = DigitVal(c)],
             desc, k + 1, p, 0)
    ELSE IF c = "B"
    THEN new_game_loop(or_flag(ret, k % ret.w, k \div ret.w, F_BLACK),
                       desc, k + 1, p, 0)
    ELSE assert_fail(ret, "Malformed desc.")

\* new_game's loop over the cells, row by row; p is the read position in
\* desc and run the number of white cells still owed by the last letter.
new_game_loop(ret, desc, k, p, run) ==
    IF k = ret.w * ret.h
    THEN IF CharAt(desc, p) # NUL THEN assert_fail(ret, "Over-long desc.") ELSE ret
    ELSE IF run > 0 THEN new_game_loop(ret, desc, k + 1, p, run - 1)
    ELSE new_game_cell(ret, desc, k, p + 1, CharAt(desc, p))

new_game(w, h, desc) == new_game_loop(new_state(w, h), desc, 0, 1, 0)

\* --------------------------------------------------------------- moves
\* The longest prefix of blanks of a string.
RECURSIVE SkipBlanks(_)
SkipBlanks(str) ==
    IF str # <<>> /\ Head(str) = " " THEN SkipBlanks(Tail(str)) ELSE str

\* The run of digits a string starts with.
RECURSIVE DigitRun(_)
DigitRun(str) ==
    IF str # <<>> /\ IsDigit(Head(str))
    THEN <<Head(str)>> \o DigitRun(Tail(str)) ELSE <<>>

RECURSIVE DigitsVal(_, _)
DigitsVal(ds, acc) ==
    IF ds = <<>> THEN acc
    ELSE DigitsVal(Tail(ds), acc * 10 + DigitVal(Head(ds)))

\* The digits ds of a %d conversion, read from s2 after the blanks and the
\* sign of str. len is the number of characters consumed.
scan_digits(str, s2, neg, ds) ==
    IF ds = <<>> THEN [ok |-> FALSE, val |-> 0, len |-> 0]
    ELSE [ok |-> TRUE,
          val |-> IF neg THEN 0 - DigitsVal(ds, 0) ELSE DigitsVal(ds, 0),
          len |-> (Len(str) - Len(s2)) + Len(ds)]

\* The optional sign of a %d conversion; s1 is str after its blanks.
scan_sign(str, s1) ==
    IF s1 # <<>> /\ Head(s1) \in {"-", "+"}
    THEN scan_digits(str, Tail(s1), Head(s1) = "-", DigitRun(Tail(s1)))
    ELSE scan_digits(str, s1, FALSE, DigitRun(s1))

\* One %d conversion of sscanf: blanks, an optional sign, digits.
scan_int(str) == scan_sign(str, SkipBlanks(str))

Drop(str, n) == SubSeq(str, n + 1, Len(str))

\* The second %d of "%d,%d%n", after the first one a.
scan_second(a, b) ==
    IF ~b.ok THEN [count |-> 1, x |-> a.val, y |-> 0, n |-> 0]
    ELSE [count |-> 2, x |-> a.val, y |-> b.val, n |-> a.len + 1 + b.len]

\* The comma of "%d,%d%n"; r1 is the string after the first conversion a.
scan_comma(a, r1) ==
    IF ~a.ok THEN [count |-> 0, x |-> 0, y |-> 0, n |-> 0]
    ELSE IF r1 = <<>> \/ Head(r1) # ","
    THEN [count |-> 1, x |-> a.val, y |-> 0, n |-> 0]
    ELSE scan_second(a, scan_int(Tail(r1)))

scan_first(move, a) == scan_comma(a, Drop(move, a.len))

\* sscanf(move, "%d,%d%n", &x, &y, &n): count is its return value.
sscanf_coords(move) == scan_first(move, scan_int(move))

\* sprintf("%d") of an integer.
RECURSIVE NatChars(_)
NatChars(n) ==
    IF n < 10 THEN <<Digits[n + 1]>>
    ELSE NatChars(n \div 10) \o <<Digits[(n % 10) + 1]>>

IntChars(n) == IF n < 0 THEN <<"-">> \o NatChars(0 - n) ELSE NatChars(n)

\* move_light without the clearing of F_IMPOSSIBLE: the fault that shows C3
\* depends on move_light.
move_light_keep_impossible(ret, x, y) ==
    set_light(ret, x, y, ~(F_LIGHT \in flagsAt(ret, x, y)))

\* The L command of execute_move on a white cell.
move_light(ret, x, y) ==
    set_light(clear_flag(ret, x, y, F_IMPOSSIBLE), x, y,
              ~(F_LIGHT \in flagsAt(ret, x, y)))

\* |= F_IMPOSSIBLE in the place of ^=: the fault that shows C8 depends on
\* flip_impossible.
set_impossible(ret, x, y) == or_flag(ret, x, y, F_IMPOSSIBLE)

\* ^= F_IMPOSSIBLE on one cell's flag word
flip_impossible(ret, x, y) ==
    IF F_IMPOSSIBLE \in flagsAt(ret, x, y)
    THEN clear_flag(ret, x, y, F_IMPOSSIBLE)
    ELSE or_flag(ret, x, y, F_IMPOSSIBLE)

\* The I command of execute_move on a white cell.
move_impossible(ret, x, y) ==
    flip_impossible(set_light(ret, x, y, FALSE), x, y)

\* badmove of an execute_move that works on the caller's state, not on a
\* duplicate: the fault that shows C6 depends on badmove.
badmove_in_place(state, ret) == [inp |-> ret, ret |-> NULL]

\* move_done with completed assigned, not latched: the fault that shows C5
\* depends on move_done.
move_done_assign(state, ret) ==
    [inp |-> state, ret |-> [ret EXCEPT !.completed = grid_correct(ret)]]

\* execute_move's exits. inp is the caller's state as the call leaves it,
\* ret the state returned (NULL: none).
badmove(state, ret) == [inp |-> state, ret |-> NULL]

move_done(state, ret) ==
    [inp |-> state,
     ret |-> IF grid_correct(ret) THEN [ret EXCEPT !.completed = TRUE] ELSE ret]

RECURSIVE move_loop(_, _, _)
\* The end of one turn of execute_move's loop: r1 is the state after the
\* command, rest the string after it.
move_next(state, ret, r1, rest) ==
    IF rest # <<>> /\ Head(rest) = ";" THEN move_loop(state, r1, Tail(rest))
    ELSE IF rest # <<>> THEN badmove(state, ret)
    ELSE move_loop(state, r1, rest)

\* The L or I command c with the coordinates sc read from rest.
move_cell(state, ret, c, sc, rest) ==
    IF sc.count # 2 \/ sc.x < 0 \/ sc.y < 0 \/ sc.x >= ret.w \/ sc.y >= ret.h
    THEN badmove(state, ret)
    ELSE IF IsBlackAt(ret, sc.x, sc.y) THEN badmove(state, ret)
    ELSE move_next(state, ret,
                   IF c = "L" THEN move_light(ret, sc.x, sc.y)
                   ELSE move_impossible(ret, sc.x, sc.y),
                   Drop(rest, sc.n))

\* The while loop of execute_move over the remaining characters.
move_loop(state, ret, move) ==
    IF move = <<>> THEN move_done(state, ret)
    ELSE IF Head(move) = "S"
    THEN move_next(state, ret, [ret EXCEPT !.used_solve = TRUE], Tail(move))
    ELSE IF Head(move) \in {"L", "I"}
    THEN move_cell(state, ret, Head(move), sscanf_coords(Tail(move)), Tail(move))
    ELSE badmove(state, ret)

execute_move(state, move) ==
    IF move = <<>> THEN badmove(state, dup_game(state))
    ELSE move_loop(state, dup_game(state), move)

\* -------------------------------------------------------------- solver
\* FOREACHLIT with tsl_callback: n counts the cells that could hold the
\* light which lights the origin, (x,y) is the last of them.
RECURSIVE tsl_callback(_, _, _)
tsl_callback(state, lit, acc) ==
    IF lit = <<>> THEN acc
    ELSE IF F_IMPOSSIBLE \in flagsAt(state, Head(lit)[1], Head(lit)[2])
             \/ lightsAt(state, Head(lit)[1], Head(lit)[2]) > 0
    THEN tsl_callback(state, Tail(lit), acc)
    ELSE tsl_callback(state, Tail(lit),
                      [x |-> Head(lit)[1], y |-> Head(lit)[2], n |-> acc.n + 1])

\* The if (n == 1) of try_solve_light on the callback's tally c.
tsl_place(state, c) ==
    IF c.n = 1
    THEN [st |-> set_light(state, c.x, c.y, TRUE), did |-> TRUE]
    ELSE [st |-> state, did |-> FALSE]

\* Returns the state and whether a light was placed.
try_solve_light(state, ox, oy, flags, lights) ==
    IF lights > 0 \/ F_BLACK \in flags THEN [st |-> state, did |-> FALSE]
    ELSE tsl_place(state,
                   tsl_callback(state,
                                FOREACHLIT(list_lights(state, ox, oy, TRUE)),
                                [x |-> -1, y |-> -1, n |-> 0]))

\* could_place_light without the test of F_BLACK: the fault that shows C4
\* depends on could_place_light.
could_place_light_on_black(flags, lights) ==
    IF F_IMPOSSIBLE \in flags THEN FALSE ELSE ~(lights > 0)

could_place_light(flags, lights) ==
    IF F_BLACK \in flags \/ F_IMPOSSIBLE \in flags THEN FALSE
    ELSE ~(lights > 0)

\* The surrounds try_solve_number leaves unmarked: no light there yet,
\* and one could be placed.
Unmarked(state, pts) ==
    SelectSeq(pts,
              LAMBDA p : /\ F_LIGHT \notin flagsAt(state, p[1], p[2])
                         /\ could_place_light(flagsAt(state, p[1], p[2]),
                                              lightsAt(state, p[1], p[2])))

RECURSIVE MarkImpossible(_, _)
MarkImpossible(state, pts) ==
    IF pts = <<>> THEN state
    ELSE MarkImpossible(or_flag(state, Head(pts)[1], Head(pts)[2], F_IMPOSSIBLE),
                        Tail(pts))

RECURSIVE PlaceAll(_, _)
PlaceAll(state, pts) ==
    IF pts = <<>> THEN state
    ELSE PlaceAll(set_light(state, Head(pts)[1], Head(pts)[2], TRUE), Tail(pts))

\* The end of try_solve_number: nl lights are still to place around
\* (nx,ny), in the unmarked surrounds free.
tsn_place(state, nx, ny, free, nl) ==
    IF Len(free) = 0 THEN [st |-> state, did |-> FALSE]
    ELSE IF nl = 0
    THEN [st |-> MarkImpossible(or_flag(state, nx, ny, F_NUMBERUSED), free),
          did |-> TRUE]
    ELSE IF nl = Len(free)
    THEN [st |-> PlaceAll(or_flag(state, nx, ny, F_NUMBERUSED), free),
          did |-> TRUE]
    ELSE [st |-> state, did |-> FALSE]

\* The first loop of try_solve_number over the surrounds s.
tsn_count(state, nx, ny, nlights, s) ==
    tsn_place(state, nx, ny, Unmarked(state, s),
              nlights - CountFlag(state, s, F_LIGHT))

\* Returns the state and whether anything was marked or placed.
try_solve_number(state, nx, ny, nflags, nlights) ==
    IF F_NUMBERED \notin nflags THEN [st |-> state, did |-> FALSE]
    ELSE tsn_count(state, nx, ny, nlights, get_surrounds(state, nx, ny))

RECURSIVE solve_pass(_, _)
\* The end of the body of the two nested loops: a and b are what the two
\* rules returned on the k-th cell.
solve_tally(acc, flags, lights, a, b) ==
    [st |-> b.st,
     ncanplace |-> acc.ncanplace
         + (IF could_place_light(flags, lights) THEN 1 ELSE 0),
     didstuff |-> acc.didstuff \/ a.did \/ b.did]

solve_number(acc, x, y, flags, lights, a) ==
    solve_tally(acc, flags, lights, a,
                try_solve_number(a.st, x, y, flags, lights))

solve_light(acc, x, y, flags, lights) ==
    solve_number(acc, x, y, flags, lights,
                 try_solve_light(acc.st, x, y, flags, lights))

solve_cell(acc, x, y) ==
    solve_light(acc, x, y, flagsAt(acc.st, x, y), lightsAt(acc.st, x, y))

\* One run of the two nested loops of solve_sub that apply both rules to
\* every cell, from the k-th cell of the scan on.
solve_pass(acc, k) ==
    IF k = acc.st.w * acc.st.h THEN acc
    ELSE solve_pass(solve_cell(acc, ScanXY(acc.st, k)[1], ScanXY(acc.st, k)[2]),
                    k + 1)

\* The number of cells of lit that are unlit.
CountUnlit(state, lit) ==
    Cardinality({j \in 1 .. Len(lit) :
                    lightsAt(state, lit[j][1], lit[j][2]) = 0})

\* The number of unlit cells a light at (x,y) would light, itself included.
WouldLight(state, x, y) ==
    CountUnlit(state, FOREACHLIT(list_lights(state, x, y, TRUE)))

\* The cells the guess loop looks at, as positions in its scan: those where
\* a light could be placed.
GuessCells(state) ==
    {k \in 0 .. state.w * state.h - 1 :
        could_place_light(flagsAt(state, ScanXY(state, k)[1], ScanXY(state, k)[2]),
                          lightsAt(state, ScanXY(state, k)[1], ScanXY(state, k)[2]))}

\* n that counts the cells already lit: the fault that shows C28 depends
\* on GuessScore.
GuessScore_lit(state, k) ==
    Len(FOREACHLIT(list_lights(state, ScanXY(state, k)[1], ScanXY(state, k)[2], TRUE)))
        - WouldLight(state, ScanXY(state, k)[1], ScanXY(state, k)[2])

\* n of the guess loop at the k-th cell of the scan.
GuessScore(state, k) ==
    WouldLight(state, ScanXY(state, k)[1], ScanXY(state, k)[2])

\* A choice that among the cells of the greatest n takes the first by rows:
\* the fault that shows C25 depends on first_best.
first_best_by_rows(state, k) ==
    \A j \in GuessCells(state) :
        \/ GuessScore(state, j) < GuessScore(state, k)
        \/ /\ GuessScore(state, j) = GuessScore(state, k)
           /\ ScanXY(state, k)[2] * state.w + ScanXY(state, k)[1]
                  <= ScanXY(state, j)[2] * state.w + ScanXY(state, j)[1]

\* if (n > bestn) replaces the choice only by a greater n: the loop ends on
\* the first cell of the scan that has the greatest n.
first_best(state, k) ==
    \A j \in GuessCells(state) :
        \/ GuessScore(state, j) < GuessScore(state, k)
        \/ GuessScore(state, j) = GuessScore(state, k) /\ k <= j

best_at(state, k) ==
    [bestn |-> GuessScore(state, k),
     bestx |-> ScanXY(state, k)[1], besty |-> ScanXY(state, k)[2]]

\* bestn, bestx and besty after the loop that chooses the cell to guess at.
best_guess(state) ==
    IF \A k \in GuessCells(state) : GuessScore(state, k) <= 0
    THEN [bestn |-> 0, bestx |-> -1, besty |-> -1]
    ELSE best_at(state, CHOOSE k \in GuessCells(state) : first_best(state, k))

\* copy_back that copies nothing: the fault that shows C11 depends on
\* copy_back.
copy_back_none(st, scopy) ==
    st

\* The state solve_sub leaves in self when only the copy was solved: the
\* two memcpy calls.
copy_back(st, scopy) ==
    [st EXCEPT !.lights = scopy.lights, !.flags = scopy.flags]

\* combine_ret that keeps the copy's count when both branches are soluble:
\* the fault that shows C10 depends on combine_ret.
combine_ret_no_sum(forceunique, st, self_soluble, copy) ==
    IF forceunique /\ (copy.ret < 0 \/ self_soluble < 0)
    THEN [st |-> st, ret |-> -1, maxdepth |-> copy.maxdepth]
    ELSE IF copy.ret <= 0
    THEN [st |-> st, ret |-> self_soluble, maxdepth |-> copy.maxdepth]
    ELSE IF self_soluble <= 0
    THEN [st |-> copy_back(st, copy.st), ret |-> copy.ret,
          maxdepth |-> copy.maxdepth]
    ELSE [st |-> st, ret |-> copy.ret, maxdepth |-> copy.maxdepth]

\* What solve_sub returns from the results of its two branches; st is the
\* caller's state after its own branch, copy the result on the duplicate.
combine_ret(forceunique, st, self_soluble, copy) ==
    IF forceunique /\ (copy.ret < 0 \/ self_soluble < 0)
    THEN [st |-> st, ret |-> -1, maxdepth |-> copy.maxdepth]
    ELSE IF copy.ret <= 0
    THEN [st |-> st, ret |-> self_soluble, maxdepth |-> copy.maxdepth]
    ELSE IF self_soluble <= 0
    THEN [st |-> copy_back(st, copy.st), ret |-> copy.ret,
          maxdepth |-> copy.maxdepth]
    ELSE [st |-> st, ret |-> copy.ret + self_soluble,
          maxdepth |-> copy.maxdepth]

\* An assertion that failed on the duplicate ends the program as well.
combine(forceunique, self, copy) ==
    combine_ret(forceunique, assert_fail(self.st, copy.st.abort), self.ret, copy)

\* maxdepth is NODEPTH or the deepest level recorded so far.
note_depth(maxdepth, depth) ==
    IF maxdepth # NODEPTH /\ maxdepth < depth THEN depth ELSE maxdepth

RECURSIVE solve_sub(_, _, _, _, _)
\* The second branch of the guess, on the duplicate, after the first one
\* returned self.
solve_copy(state, forceunique, maxrecurse, depth, best, self) ==
    IF self.ret > 0 /\ ~forceunique THEN self
    ELSE combine(forceunique, self,
                 solve_sub(set_light(dup_game(state), best.bestx, best.besty, TRUE),
                           forceunique, maxrecurse, depth + 1, self.maxdepth))

\* The guess at the cell chosen: first with the cell marked impossible.
solve_guess(state, forceunique, maxrecurse, depth, maxdepth, best) ==
    IF ~(best.bestn > 0 /\ best.bestx >= 0 /\ best.besty >= 0)
    THEN [st |-> assert_fail(state, "bestn > 0"), ret |-> 0, maxdepth |-> maxdepth]
    ELSE solve_copy(state, forceunique, maxrecurse, depth, best,
                    solve_sub(or_flag(state, best.bestx, best.besty, F_IMPOSSIBLE),
                              forceunique, maxrecurse, depth + 1, maxdepth))

RECURSIVE solve_passes(_)
\* The end of an iteration of the while (1) loop whose pass left pass:
\* continue if it did something.
solve_again(pass) ==
    IF pass.st.abort = RUNNING /\ pass.didstuff THEN solve_passes(pass.st)
    ELSE pass

\* The iterations of the while (1) loop up to the first that does not end
\* in continue: the pass of that one, or state with nothing counted when
\* it returns before its pass.
solve_passes(state) ==
    IF grid_overlap(state) \/ grid_correct(state)
    THEN [st |-> state, ncanplace |-> 0, didstuff |-> FALSE]
    ELSE solve_again(solve_pass([st |-> state, ncanplace |-> 0,
                                 didstuff |-> FALSE], 0))

\* The end of an iteration without the test of depth against maxrecurse:
\* the fault that shows C27 depends on solve_after.
solve_after_no_limit(forceunique, maxrecurse, depth, maxdepth, pass) ==
    IF pass.st.abort # RUNNING \/ grid_overlap(pass.st)
    THEN [st |-> pass.st, ret |-> 0, maxdepth |-> maxdepth]
    ELSE IF grid_correct(pass.st)
    THEN [st |-> pass.st, ret |-> 1, maxdepth |-> maxdepth]
    ELSE IF pass.ncanplace = 0
    THEN [st |-> pass.st, ret |-> 0, maxdepth |-> maxdepth]
    ELSE solve_guess(pass.st, forceunique, maxrecurse, depth, maxdepth,
                     best_guess(pass.st))

\* The iteration of the while (1) loop that does not end in continue;
\* pass is what solve_passes left.
solve_after(forceunique, maxrecurse, depth, maxdepth, pass) ==
    IF pass.st.abort # RUNNING \/ grid_overlap(pass.st)
    THEN [st |-> pass.st, ret |-> 0, maxdepth |-> maxdepth]
    ELSE IF grid_correct(pass.st)
    THEN [st |-> pass.st, ret |-> 1, maxdepth |-> maxdepth]
    ELSE IF pass.ncanplace = 0
    THEN [st |-> pass.st, ret |-> 0, maxdepth |-> maxdepth]
    ELSE IF depth >= maxrecurse
    THEN [st |-> pass.st, ret |-> -1, maxdepth |-> maxdepth]
    ELSE solve_guess(pass.st, forceunique, maxrecurse, depth, maxdepth,
                     best_guess(pass.st))

\* The while (1) loop of solve_sub.
solve_loop(state, forceunique, maxrecurse, depth, maxdepth) ==
    solve_after(forceunique, maxrecurse, depth, maxdepth, solve_passes(state))

solve_sub(state, forceunique, maxrecurse, depth, maxdepth) ==
    solve_loop(state, forceunique, maxrecurse, depth, note_depth(maxdepth, depth))

MAXRECURSE == 5

RECURSIVE ClearAll(_, _, _)
\* Clears flag f on the cells k .. w*h-1.
ClearAll(state, f, k) ==
    IF k = state.w * state.h THEN state
    ELSE ClearAll([state EXCEPT !.flags[k] = @ \ {f}], f, k + 1)

dosolve(state, allowguess, forceunique, maxdepth) ==
    solve_sub(ClearAll(state, F_NUMBERUSED, 0), forceunique,
              IF allowguess THEN MAXRECURSE ELSE 0, 0, maxdepth)

\* ------------------------------------------------------------ generator
SYMM_NONE == 0
SYMM_REF2 == 1
SYMM_ROT2 == 2
SYMM_REF4 == 3
SYMM_ROT4 == 4
SYMM_MAX == 5

\* ----------------------------------------------------------- parameters
\* The null pointer validate_desc and validate_params return for no error.
VALID == "NULL"

\* atoi: blanks, an optional sign and digits, 0 when there is no digit.
atoi(str) == scan_int(str).val

\* EATNUM moves string past the digits it starts with.
eat_digits(str) == Drop(str, Len(DigitRun(str)))

\* The end of decode_params: recurse is set from the letter r.
decode_recurse(params, str) ==
    [params EXCEPT !.recurse = (CharAt(str, 1) = "r")]

\* decode_symm that leaves symm as it was: the fault that shows C17 depends
\* on decode_symm.
decode_symm_kept(params, str) ==
    IF CharAt(str, 1) = "s"
    THEN decode_recurse(params, eat_digits(Tail(str)))
    ELSE decode_recurse(params, str)

decode_symm(params, str) ==
    IF CharAt(str, 1) = "s"
    THEN decode_recurse([params EXCEPT !.symm = atoi(Tail(str))],
                        eat_digits(Tail(str)))
    ELSE decode_recurse(params, str)

decode_blackpc(params, str) ==
    IF CharAt(str, 1) = "b"
    THEN decode_symm([params EXCEPT !.blackpc = atoi(Tail(str))],
                     eat_digits(Tail(str)))
    ELSE decode_symm(params, str)

decode_height(params, str) ==
    IF CharAt(str, 1) = "x"
    THEN decode_blackpc([params EXCEPT !.h = atoi(Tail(str))],
                        eat_digits(Tail(str)))
    ELSE decode_blackpc(params, str)

\* params is the structure decode_params writes into, as it was before.
decode_params(params, str) ==
    decode_height([params EXCEPT !.w = atoi(str)], eat_digits(str))

encode_params(params, full) ==
    IF full
    THEN IntChars(params.w) \o <<"x">> \o IntChars(params.h)
         \o <<"b">> \o IntChars(params.blackpc)
         \o <<"s">> \o IntChars(params.symm)
         \o (IF params.recurse THEN <<"r">> ELSE <<>>)
    ELSE IntChars(params.w) \o <<"x">> \o IntChars(params.h)

\* The error message of validate_params, or VALID for its NULL.
validate_params(params, full) ==
    IF params.w < 2 \/ params.h < 2
    THEN "Width and height must be at least 2"
    ELSE IF full /\ (params.blackpc < 5 \/ params.blackpc > 100)
    THEN "Percentage of black squares must be between 5% and 100%"
    ELSE IF full /\ params.w # params.h /\ params.symm = SYMM_ROT4
    THEN "4-fold symmetry is only available with square grids"
    ELSE IF full /\ (params.symm < 0 \/ params.symm >= SYMM_MAX)
    THEN "Unknown symmetry type"
    ELSE VALID

clean_board(state, leave_blacks) ==
    [state EXCEPT
        !.flags = [k \in DOMAIN @ |-> IF leave_blacks THEN @[k] \cap {F_BLACK} ELSE {}],
        !.lights = [k \in DOMAIN @ |-> 0],
        !.nlights = 0]

\* degree and rotate of set_blacks, from params->symm.
degree(symm) ==
    IF symm = SYMM_NONE THEN 1
    ELSE IF symm \in {SYMM_ROT2, SYMM_REF2} THEN 2 ELSE 4

rotate(symm) == symm \in {SYMM_ROT2, SYMM_ROT4}

\* The required region of set_blacks is rw by rh.
rw(state, symm) ==
    IF degree(symm) = 4
    THEN state.w \div 2 + (IF rotate(symm) THEN 0 ELSE state.w % 2)
    ELSE state.w

rh(state, symm) ==
    IF degree(symm) = 1 THEN state.h ELSE state.h \div 2 + (state.h % 2)

\* nblack of set_blacks.
nblack(state, params) ==
    (rw(state, params.symm) * rh(state, params.symm) * params.blackpc) \div 100

\* What the random draws of set_blacks can pick: nblack different cells of
\* the required region, as indices.
BlackPicks(state, params) ==
    { B \in SUBSET { GRID(state, x, y) : x \in 0 .. (rw(state, params.symm) - 1),
                                         y \in 0 .. (rh(state, params.symm) - 1) } :
         Cardinality(B) = nblack(state, params) }

\* Images that are those of the reflections whatever rotate is: the fault
\* that shows C26 depends on images.
images_reflected(state, symm, x, y) ==
    IF degree(symm) = 4
    THEN { GRID(state, state.w - 1 - x, y),
           GRID(state, x, state.h - 1 - y),
           GRID(state, state.w - 1 - x, state.h - 1 - y) }
    ELSE { GRID(state, x, state.h - 1 - y) }

\* xs[i], ys[i] for i = 1 .. degree-1, as indices: the images of (x,y).
images(state, symm, x, y) ==
    IF degree(symm) = 4
    THEN { GRID(state, state.w - 1 - (IF rotate(symm) THEN y ELSE x),
                       IF rotate(symm) THEN x ELSE y),
           GRID(state, IF rotate(symm) THEN state.w - 1 - x ELSE x,
                       state.h - 1 - y),
           GRID(state, IF rotate(symm) THEN y ELSE state.w - 1 - x,
                       state.h - 1 - (IF rotate(symm) THEN x ELSE y)) }
    ELSE { GRID(state, IF rotate(symm) THEN state.w - 1 - x ELSE x,
                       state.h - 1 - y) }

\* The loops that copy the required region, from the k-th cell of their
\* scan (x outer, y inner, over the region) on.
RECURSIVE copy_region(_, _, _)
copy_region(state, symm, k) ==
    IF k = rw(state, symm) * rh(state, symm) THEN state
    ELSE copy_region(
             [state EXCEPT !.flags =
                 [j \in DOMAIN @ |->
                     IF j \in images(state, symm, k \div rh(state, symm),
                                     k % rh(state, symm))
                     THEN @[GRID(state, k \div rh(state, symm), k % rh(state, symm))]
                     ELSE @[j]]],
             symm, k + 1)

\* The fix of the middle square for SYMM_ROT4; r is what random_upto(rs,100)
\* returns.
fix_middle(state, params, r) ==
    IF degree(params.symm) = 4 /\ rotate(params.symm) /\ state.w % 2 = 1
       /\ r <= params.blackpc
    THEN or_flag(state, state.w \div 2 + (state.w % 2) - 1,
                 state.h \div 2 + (state.h % 2) - 1, F_BLACK)
    ELSE state

\* B is the set of cells the random draws pick, r the last random number.
set_blacks(state, params, B, r) ==
    IF params.symm \notin SYMM_NONE .. SYMM_ROT4
    THEN assert_fail(state, "Unknown symmetry type")
    ELSE IF params.symm = SYMM_ROT4 /\ state.h # state.w
    THEN assert_fail(state, "4-fold symmetry unavailable without square grid")
    ELSE IF params.symm = SYMM_NONE
    THEN [clean_board(state, FALSE) EXCEPT
             !.flags = [k \in DOMAIN @ |-> IF k \in B THEN {F_BLACK} ELSE {}]]
    ELSE fix_middle(
             copy_region([clean_board(state, FALSE) EXCEPT
                             !.flags = [k \in DOMAIN @ |->
                                           IF k \in B THEN {F_BLACK} ELSE {}]],
                         params.symm, 0),
             params, r)

\* Some cell of lit is lit exactly once.
AnyLitOnce(state, lit) ==
    \E j \in 1 .. Len(lit) : lightsAt(state, lit[j][1], lit[j][2]) = 1

check_dark(state, x, y) ==
    AnyLitOnce(state, FOREACHLIT(list_lights(state, x, y, TRUE)))

\* The body of the first loop of place_lights, after F_MARK is cleared.
light_cell(state, x, y) ==
    IF IsBlackAt(state, x, y) THEN state ELSE set_light(state, x, y, TRUE)

\* The first loop of place_lights from the k-th cell of its scan on:
\* F_MARK cleared everywhere, a light on every white cell.
RECURSIVE light_all(_, _)
light_all(state, k) ==
    IF k = state.w * state.h THEN state
    ELSE light_all(
             light_cell(clear_flag(state, ScanXY(state, k)[1],
                                   ScanXY(state, k)[2], F_MARK),
                        ScanXY(state, k)[1], ScanXY(state, k)[2]),
             k + 1)

RECURSIVE RemoveAll(_, _)
RemoveAll(state, pts) ==
    IF pts = <<>> THEN state
    ELSE RemoveAll(set_light(state, Head(pts)[1], Head(pts)[2], FALSE), Tail(pts))

\* The lights among the cells of lit.
Lamps(state, lit) ==
    SelectSeq(lit, LAMBDA p : F_LIGHT \in flagsAt(state, p[1], p[2]))

\* Those of them whose removal would leave a cell dark.
Needed(state, lamps) ==
    SelectSeq(lamps, LAMBDA p : check_dark(state, p[1], p[2]))

RECURSIVE thin_lights(_, _, _)
\* The end of the body of the second loop, on the state s1 it leaves.
thin_check(s1, numindices, i) ==
    IF s1.abort # RUNNING \/ ~grid_overlap(s1) THEN s1
    ELSE IF ~grid_lit(s1) THEN assert_fail(s1, "grid_lit(state)")
    ELSE thin_lights(s1, numindices, i + 1)

\* The light at (x,y) lights the cells lit, with the lights lamps on them.
thin_lamps(state, numindices, i, x, y, lit, lamps) ==
    IF lamps = <<>> THEN thin_lights(state, numindices, i + 1)
    ELSE IF Needed(state, lamps) = <<>>
    THEN thin_check(or_flag(RemoveAll(state, lit), x, y, F_MARK), numindices, i)
    ELSE thin_check(state, numindices, i)

thin_lines(state, numindices, i, x, y, lit) ==
    thin_lamps(state, numindices, i, x, y, lit, Lamps(state, lit))

thin_cell(state, numindices, i, x, y) ==
    IF F_LIGHT \notin flagsAt(state, x, y) \/ F_MARK \in flagsAt(state, x, y)
    THEN thin_lights(state, numindices, i + 1)
    ELSE thin_lines(state, numindices, i, x, y,
                    FOREACHLIT(list_lights(state, x, y, FALSE)))

\* The second loop of place_lights from position i of numindices on.
thin_lights(state, numindices, i) ==
    IF i = state.w * state.h THEN assert_fail(state, "Shouldn't get here!")
    ELSE thin_cell(state, numindices, i,
                   numindices[i] % state.w, numindices[i] \div state.w)

\* numindices is the shuffled list of the cell indices 0 .. w*h-1.
place_lights(state, numindices) ==
    thin_lights(light_all(state, 0), numindices, 0)

\* The body of the loops of place_numbers.
number_cell(state, x, y) ==
    IF ~IsBlackAt(state, x, y) THEN state
    ELSE [or_flag(state, x, y, F_NUMBERED)
             EXCEPT !.lights[GRID(state, x, y)] =
                 CountFlag(state, get_surrounds(state, x, y), F_LIGHT)]

RECURSIVE place_numbers_from(_, _)
place_numbers_from(state, k) ==
    IF k = state.w * state.h THEN state
    ELSE place_numbers_from(
             number_cell(state, ScanXY(state, k)[1], ScanXY(state, k)[2]), k + 1)

place_numbers(state) == place_numbers_from(state, 0)

\* The body of the loops of unplace_lights.
unplace_cell(state, x, y) ==
    clear_flag(clear_flag(IF F_LIGHT \in flagsAt(state, x, y)
                          THEN set_light(state, x, y, FALSE) ELSE state,
                          x, y, F_IMPOSSIBLE),
               x, y, F_NUMBERUSED)

RECURSIVE unplace_from(_, _)
unplace_from(state, k) ==
    IF k = state.w * state.h THEN state
    ELSE unplace_from(
             unplace_cell(state, ScanXY(state, k)[1], ScanXY(state, k)[2]), k + 1)

unplace_lights(state) == unplace_from(state, 0)

\* is_good without its test nsol > 1: the fault that shows C13 depends on
\* is_good.
is_good_many(recurse, r) ==
    [st |-> r.st, mdepth |-> r.maxdepth,
     good |-> IF ~recurse /\ r.maxdepth > 0 THEN FALSE
              ELSE IF r.ret <= 0 THEN FALSE
              ELSE TRUE]

\* The verdict of puzzle_is_good on what dosolve returned.
is_good(recurse, r) ==
    [st |-> r.st, mdepth |-> r.maxdepth,
     good |-> IF ~recurse /\ r.maxdepth > 0 THEN FALSE
              ELSE IF r.ret <= 0 THEN FALSE
              ELSE IF r.ret > 1 THEN FALSE
              ELSE TRUE]

\* recurse is params->recurse. Returns the state as the solver leaves it,
\* the verdict and *mdepth.
puzzle_is_good(state, recurse) ==
    is_good(recurse, dosolve(unplace_lights(state), recurse, TRUE, 0))

MAX_GRIDGEN_TRIES == 20

strip_unused_nums(state) ==
    [state EXCEPT
        !.flags = [k \in DOMAIN @ |->
                      IF F_NUMBERED \in @[k] /\ F_NUMBERUSED \notin @[k]
                      THEN @[k] \ {F_NUMBERED} ELSE @[k]],
        !.lights = [k \in DOMAIN @ |->
                       IF F_NUMBERED \in state.flags[k]
                          /\ F_NUMBERUSED \notin state.flags[k]
                       THEN 0 ELSE @[k]]]

\* The step of new_game_desc that strips the numbers the solver did not
\* use from a copy; r is what puzzle_is_good made of the copy. Returns news
\* and mdepth.
strip_keep(news, r) ==
    [st |-> IF r.good THEN r.st ELSE assert_fail(news, r.st.abort),
     mdepth |-> r.mdepth]

strip_copy(news, recurse) ==
    strip_keep(news, puzzle_is_good(strip_unused_nums(dup_game(news)), recurse))

\* The number num put back on (x,y).
put_back(news, x, y, num) ==
    [or_flag(news, x, y, F_NUMBERED) EXCEPT !.lights[GRID(news, x, y)] = num]

RECURSIVE remove_numbers(_, _, _, _)
\* The body of the loop that removes the numbers one by one, on the
\* numbered cell (x,y); r is what puzzle_is_good made of news without it.
remove_number(recurse, numindices, i, x, y, num, r) ==
    remove_numbers(IF r.good THEN r.st ELSE put_back(r.st, x, y, num),
                   recurse, numindices, i + 1)

remove_cell(news, recurse, numindices, i, x, y) ==
    IF F_NUMBERED \notin flagsAt(news, x, y)
    THEN remove_numbers(news, recurse, numindices, i + 1)
    ELSE remove_number(recurse, numindices, i, x, y, lightsAt(news, x, y),
                       puzzle_is_good(
                           [clear_flag(news, x, y, F_NUMBERED)
                               EXCEPT !.lights[GRID(news, x, y)] = 0],
                           recurse))

\* The loop from position i of numindices on.
remove_numbers(news, recurse, numindices, i) ==
    IF i = news.w * news.h \/ news.abort # RUNNING THEN news
    ELSE remove_cell(news, recurse, numindices, i,
                     numindices[i] % news.w, numindices[i] \div news.w)

\* last_check that takes the puzzle whatever mdepth is: the fault that shows
\* C14 depends on last_check.
last_check_any_depth(recurse, r) ==
    [st |-> IF r.good THEN r.st ELSE assert_fail(r.st, "i"),
     mdepth |-> r.mdepth,
     i |-> IF r.good THEN 1 ELSE 0,
     goto |-> "goodpuzzle"]

\* What follows the loop: the last puzzle_is_good, which left r, the
\* assertion on it and the test of the difficulty reached. The for loop
\* goes on ("continue") with i as puzzle_is_good returned it, or the
\* puzzle is taken.
last_check(recurse, r) ==
    [st |-> IF r.good THEN r.st ELSE assert_fail(r.st, "i"),
     mdepth |-> r.mdepth,
     i |-> IF r.good THEN 1 ELSE 0,
     goto |-> IF recurse /\ r.mdepth = 0 THEN "continue" ELSE "goodpuzzle"]

prune(news, recurse, numindices) ==
    last_check(recurse,
               puzzle_is_good(remove_numbers(news, recurse, numindices, 0), recurse))

\* black_char that writes B for every black cell: the fault that shows C15
\* depends on black_char.
black_char_plain(news, k) ==
    "B"

\* The character written for a black cell.
black_char(news, k) ==
    IF F_NUMBERED \in news.flags[k] THEN Digits[news.lights[k] + 1] ELSE "B"

\* The letter written for a run of white cells, if any is owed.
flush(run) == IF run > 0 THEN <<Letters[run]>> ELSE <<>>

\* The loops at goodpuzzle: the characters written from cell k of the scan,
\* row by row, on, with run white cells counted and not yet written.
RECURSIVE encode_from(_, _, _)
encode_from(news, k, run) ==
    IF k = news.w * news.h THEN flush(run)
    ELSE IF F_BLACK \in news.flags[k]
    THEN flush(run) \o <<black_char(news, k)>> \o encode_from(news, k + 1, 0)
    ELSE IF run = 26
    THEN flush(run) \o encode_from(news, k + 1, 1)
    ELSE encode_from(news, k + 1, run + 1)

\* The descriptor new_game_desc returns for news, and news with the
\* assertion on its length.
encode_desc(news) ==
    [desc |-> encode_from(news, 0, 0),
     st |-> IF Len(encode_from(news, 0, 0)) <= news.w * news.h THEN news
            ELSE assert_fail(news, "p - ret <= params->w * params->h")]

\* validate_desc_loop without the test i > wh after the loop: the fault that
\* shows C16 depends on validate_desc_loop.
RECURSIVE validate_desc_loop_no_over(_, _, _, _)
validate_desc_loop_no_over(wh, desc, i, p) ==
    IF i >= wh
    THEN IF CharAt(desc, p) # NUL
         THEN "Game description longer than expected" ELSE VALID
    ELSE IF CharAt(desc, p) \in {"0", "1", "2", "3", "4", "B"}
    THEN validate_desc_loop_no_over(wh, desc, i + 1, p + 1)
    ELSE IF IsLetter(CharAt(desc, p))
    THEN validate_desc_loop_no_over(wh, desc,
                                    i + (LetterOrd(CharAt(desc, p)) - 1) + 1, p + 1)
    ELSE IF CharAt(desc, p) = NUL
    THEN "Game description shorter than expected"
    ELSE "Game description contained unexpected character"

\* The loop of validate_desc: i is its counter, p the read position.
RECURSIVE validate_desc_loop(_, _, _, _)
validate_desc_loop(wh, desc, i, p) ==
    IF i >= wh
    THEN IF CharAt(desc, p) # NUL \/ i > wh
         THEN "Game description longer than expected" ELSE VALID
    ELSE IF CharAt(desc, p) \in {"0", "1", "2", "3", "4", "B"}
    THEN validate_desc_loop(wh, desc, i + 1, p + 1)
    ELSE IF IsLetter(CharAt(desc, p))
    THEN validate_desc_loop(wh, desc, i + (LetterOrd(CharAt(desc, p)) - 1) + 1, p + 1)
    ELSE IF CharAt(desc, p) = NUL
    THEN "Game description shorter than expected"
    ELSE "Game description contained unexpected character"

validate_desc(w, h, desc) == validate_desc_loop(w * h, desc, 0, 1)

\* ---------------------------------------------------------- solve_game
\* diff_cell with its two tests in the other order: the fault that shows
\* C9 depends on diff_cell.
diff_cell_impossible_first(oldflags, solvedflags, x, y) ==
    IF (F_IMPOSSIBLE \in oldflags) # (F_IMPOSSIBLE \in solvedflags)
    THEN <<";", "I">> \o IntChars(x) \o <<",">> \o IntChars(y)
    ELSE IF (F_LIGHT \in oldflags) # (F_LIGHT \in solvedflags)
    THEN <<";", "L">> \o IntChars(x) \o <<",">> \o IntChars(y)
    ELSE <<>>

\* The command solve_game appends for cell (x,y), if any.
diff_cell(oldflags, solvedflags, x, y) ==
    IF (F_LIGHT \in oldflags) # (F_LIGHT \in solvedflags)
    THEN <<";", "L">> \o IntChars(x) \o <<",">> \o IntChars(y)
    ELSE IF (F_IMPOSSIBLE \in oldflags) # (F_IMPOSSIBLE \in solvedflags)
    THEN <<";", "I">> \o IntChars(x) \o <<",">> \o IntChars(y)
    ELSE <<>>

\* The commands solve_game appends, from the k-th cell of its scan on.
RECURSIVE solve_diff(_, _, _)
solve_diff(currstate, solved, k) ==
    IF k = currstate.w * currstate.h THEN <<>>
    ELSE diff_cell(flagsAt(currstate, ScanXY(currstate, k)[1], ScanXY(currstate, k)[2]),
                   flagsAt(solved, ScanXY(currstate, k)[1], ScanXY(currstate, k)[2]),
                   ScanXY(currstate, k)[1], ScanXY(currstate, k)[2])
         \o solve_diff(currstate, solved, k + 1)

\* The label solved: of solve_game. move is the string returned, solved the
\* state the solver left.
solve_move(currstate, solved) ==
    [move |-> <<"S">> \o solve_diff(currstate, solved, 0), solved |-> solved]

\* The second attempt, from the clean puzzle; NULLSTR is the null move
\* returned with the error.
solve_clean(currstate, b) ==
    IF b.ret > 0 THEN solve_move(currstate, b.st)
    ELSE [move |-> NULLSTR, solved |-> b.st]

\* The first attempt, from where the player is.
solve_current(state, currstate, a) ==
    IF a.ret > 0 THEN solve_move(currstate, a.st)
    ELSE solve_clean(currstate, dosolve(dup_game(state), TRUE, FALSE, NODEPTH))

solve_game(state, currstate) ==
    solve_current(state, currstate,
                  dosolve(dup_game(currstate), TRUE, FALSE, NODEPTH))

\* -------------------------------------------------------- interpret_move
FLIP_LIGHT == "FLIP_LIGHT"
FLIP_IMPOSSIBLE == "FLIP_IMPOSSIBLE"

\* interpret_move without its tests of F_IMPOSSIBLE and F_LIGHT: the fault
\* that shows C7 depends on interpret_move.
interpret_move_any(state, cx, cy, action) ==
    IF cx < 0 \/ cy < 0 \/ cx >= state.w \/ cy >= state.h THEN NULLSTR
    ELSE IF F_BLACK \in flagsAt(state, cx, cy) THEN NULLSTR
    ELSE <<(IF action = FLIP_LIGHT THEN "L" ELSE "I")>>
         \o IntChars(cx) \o <<",">> \o IntChars(cy)

\* The switch of interpret_move on the action chosen for cell (cx,cy):
\* the move string, or NULLSTR for nullret.
interpret_move(state, cx, cy, action) ==
    IF cx < 0 \/ cy < 0 \/ cx >= state.w \/ cy >= state.h THEN NULLSTR
    ELSE IF F_BLACK \in flagsAt(state, cx, cy) THEN NULLSTR
    ELSE IF action = FLIP_LIGHT /\ F_IMPOSSIBLE \in flagsAt(state, cx, cy) THEN NULLSTR
    ELSE IF action # FLIP_LIGHT /\ F_LIGHT \in flagsAt(state, cx, cy) THEN NULLSTR
    ELSE <<(IF action = FLIP_LIGHT THEN "L" ELSE "I")>>
         \o IntChars(cx) \o <<",">> \o IntChars(cy)

\* ---------------------------------------------------------------- bounds
\* The most commands in one move string a player's front end sends.
MaxCmds == 2
\* Coordinates tried in commands run up to the grid's edge plus this.
MaxOver == 1
\* The solver is run on the state itself only while nlights is at most
\* this far from the number of lights on the board.
MaxDrift == 1
\* The black percentage is raised at most this many times.
MaxRaises == 1
\* The calls of set_blacks at one black percentage are counted up to this,
\* in the runs that start the count at 0; the others leave it at NOCOUNT.
MaxTries == 21
NOCOUNT == MaxTries + 1

\* ------------------------------------------------------- the state machine
VARIABLES
    state,  \* the game_state being worked on: the generator's news, then
            \* the current state of the game
    orig,   \* the state new_game decoded (solve_game's first argument)
    pc,     \* where the program is: the generator's steps, then "play"
    last,   \* the last operation: what it was and what it returned
    gen     \* new_game_desc's side: params as the caller holds them, given
            \* as they were when it was called, the loop counter i, the
            \* shuffled numindices, and desc, the descriptor of the puzzle

vars == <<state, orig, pc, last, gen>>

\* The descriptors played, with their sizes.
Puzzles ==
    { [w |-> 2, h |-> 2, desc |-> <<"d">>],
      [w |-> 2, h |-> 2, desc |-> <<"0", "c">>],
      [w |-> 2, h |-> 2, desc |-> <<"a", "3", "b">>],
      [w |-> 3, h |-> 1, desc |-> <<"c">>] }

\* The puzzles the solver is run on fresh from new_game: a 4x4 puzzle whose
\* solution takes more guesses than MAXRECURSE, and the 3x3 grid with a 4
\* clue at its centre.
Studies ==
    { [w |-> 4, h |-> 4, desc |-> <<"b", "1", "e", "2", "a", "2", "e">>],
      [w |-> 3, h |-> 3, desc |-> <<"d", "4", "d">>] }

\* The parameters new_game_desc is called with: a 2x2 grid left all
\* white, one nearly all black, one all black, one with a symmetry, and
\* 3x2 grids with one black cell, easy and hard.
GenParams ==
    { [w |-> 2, h |-> 2, blackpc |-> 20, symm |-> SYMM_NONE, recurse |-> FALSE],
      [w |-> 2, h |-> 2, blackpc |-> 88, symm |-> SYMM_NONE, recurse |-> TRUE],
      [w |-> 2, h |-> 2, blackpc |-> 100, symm |-> SYMM_NONE, recurse |-> FALSE],
      [w |-> 2, h |-> 2, blackpc |-> 50, symm |-> SYMM_REF2, recurse |-> FALSE],
      [w |-> 3, h |-> 2, blackpc |-> 20, symm |-> SYMM_NONE, recurse |-> FALSE],
      [w |-> 3, h |-> 2, blackpc |-> 20, symm |-> SYMM_NONE, recurse |-> TRUE] }

\* The shuffles of the cell indices 0 .. n-1 tried: k -> (a*k + b) mod n,
\* forwards and backwards from every start.
Shuffles(n) ==
    { [k \in 0 .. (n - 1) |-> (a * k + b) % n] : a \in {1, n - 1}, b \in 0 .. (n - 1) }

\* The shuffles tried for new_game_desc's own numindices: the cells in
\* order and in reverse order.
Orders(n) ==
    { [k \in 0 .. (n - 1) |-> k], [k \in 0 .. (n - 1) |-> n - 1 - k] }

\* What random_upto(rs, 100) returns in set_blacks: the least, the most.
Percents == {0, 99}

\* gen for a puzzle that is played from its descriptor.
Played(p) ==
    [params |-> [w |-> p.w, h |-> p.h, blackpc |-> 20, symm |-> SYMM_NONE,
                 recurse |-> FALSE],
     given |-> [w |-> p.w, h |-> p.h, blackpc |-> 20, symm |-> SYMM_NONE,
                recurse |-> FALSE],
     i |-> 0, tries |-> NOCOUNT, numindices |-> <<>>,
     desc |-> p.desc]

Op(op, ret) == [op |-> op, ret |-> ret]

\* The move string of one command on (x,y).
Cmd(c, x, y) == <<c>> \o IntChars(x) \o <<",">> \o IntChars(y)

\* The well-formed single commands aimed inside a w by h grid.
InGrid(w, h) ==
    { Cmd(c, x, y) : c \in {"L", "I"}, x \in 0 .. (w - 1), y \in 0 .. (h - 1) }

\* Well-formed single commands aimed outside it.
OutOfGrid(w, h) ==
    { Cmd("L", 0 - 1, 0), Cmd("I", 0, 0 - 1) }
    \cup { Cmd("L", w - 1 + d, 0) : d \in 1 .. MaxOver }
    \cup { Cmd("I", 0, h - 1 + d) : d \in 1 .. MaxOver }

\* Strings that are no command, or a command with something missing or
\* something added.
Garbage ==
    { <<>>, <<"X">>, <<";">>, <<"L">>, <<"L", "0", ",">>,
      <<"I", ",", "0">>, <<"L", "0", ",", "0", "X">>,
      <<"S", "L", "0", ",", "0">>, <<"L", " ", "0", ",", " ", "0">> }

\* The commands that lead the longer move strings tried.
Leads(w, h) == { <<"S">>, Cmd("L", 0, 0), Cmd("I", w - 1, h - 1) }

\* The parts that end them: a command on each kind, inside the grid and
\* outside it, and a part that is no command.
Tails(w, h) == { Cmd("L", w - 1, h - 1), Cmd("I", 0, 0), Cmd("L", w, 0), <<"X">> }

RECURSIVE MovesOf(_, _, _)
\* The move strings of exactly n parts tried on a w by h grid; those of one
\* well-formed command inside the grid are the action Command's.
MovesOf(w, h, n) ==
    IF n = 1 THEN { <<"S">> } \cup OutOfGrid(w, h) \cup Garbage
    ELSE { a \o <<";">> \o m :
              a \in Leads(w, h),
              m \in (IF n = 2 THEN Tails(w, h) ELSE MovesOf(w, h, n - 1)) }

Sizes == { <<p.w, p.h>> : p \in Puzzles \cup Studies } \cup { <<p.w, p.h>> : p \in GenParams }

Moves ==
    [sz \in Sizes |-> UNION { MovesOf(sz[1], sz[2], n) : n \in 1 .. MaxCmds }]

NumLights(s) == Cardinality({ i \in Cells(s) : F_LIGHT \in s.flags[i] })

Live == state.abort = RUNNING

Init ==
    /\ \/ /\ \E p \in Puzzles :
                /\ state = new_game(p.w, p.h, p.desc)
                /\ gen = Played(p)
          /\ pc = "play"
          /\ last = Op("new_game", 0)
       \/ /\ \E p \in Studies :
                /\ state = new_game(p.w, p.h, p.desc)
                /\ gen = Played(p)
          /\ pc = "fresh"
          /\ last = Op("new_game", 0)
       \/ /\ \E params \in GenParams :
                /\ state = new_state(params.w, params.h)
                /\ \E numindices \in Orders(params.w * params.h) :
                      gen = [params |-> params, given |-> params, i |-> 0,
                             tries |-> NOCOUNT,
                             numindices |-> numindices, desc |-> NULLSTR]
          /\ pc = "try"
          /\ last = Op("new_game_desc", 0)
    /\ orig = state

\* What the caller holds after execute_move: the state returned, or its
\* own state when none was.
After(r) == IF r.ret = NULL THEN r.inp ELSE r.ret

\* execute_move on one well-formed command aimed inside the grid.
Command(c, x, y) ==
    /\ pc = "play" /\ Live
    /\ \E r \in { execute_move(state, Cmd(c, x, y)) } :
           /\ state' = After(r)
           /\ last' = Op(IF r.ret = NULL THEN "badmove"
                         ELSE IF c = "L" /\ F_IMPOSSIBLE \in flagsAt(state, x, y)
                         THEN "L on impossible"
                         ELSE IF c = "I" /\ F_LIGHT \in flagsAt(state, x, y)
                         THEN "I on light"
                         ELSE "move", 0)
    /\ UNCHANGED <<orig, pc, gen>>

\* execute_move on any other move string.
MoveString(move) ==
    /\ pc = "play" /\ Live
    /\ \E r \in { execute_move(state, move) } :
           /\ state' = After(r)
           /\ last' = Op(IF r.ret = NULL THEN "badmove" ELSE "move", 0)
    /\ UNCHANGED <<orig, pc, gen>>

\* A click or key press on cell (cx,cy): interpret_move, and execute_move
\* on the move it makes, if any.
Click(cx, cy, action) ==
    /\ pc = "play" /\ Live
    /\ \E move \in { interpret_move(state, cx, cy, action) } :
           IF move = NULLSTR
           THEN /\ state' = state
                /\ last' = Op("nullret", 0)
           ELSE \E r \in { execute_move(state, move) } :
                /\ state' = After(r)
                /\ last' = Op(IF r.ret = NULL THEN "badmove" ELSE "move", 0)
    /\ UNCHANGED <<orig, pc, gen>>

\* The solver run on the state itself.
DoSolve(allowguess, forceunique) ==
    /\ pc = "play" /\ Live
    /\ state.nlights - NumLights(state) \in (0 - MaxDrift) .. MaxDrift
    /\ \E r \in { dosolve(state, allowguess, forceunique, 0) } :
           /\ state' = r.st
           /\ last' = Op(IF forceunique THEN "dosolve unique" ELSE "dosolve", r.ret)
    /\ UNCHANGED <<orig, pc, gen>>

\* The solver run on a puzzle fresh from new_game.
DoSolveFresh(allowguess, forceunique) ==
    /\ pc = "fresh" /\ Live
    /\ \E r \in { dosolve(state, allowguess, forceunique, 0) } :
           /\ state' = r.st
           /\ last' = Op(IF forceunique THEN "dosolve unique" ELSE "dosolve", r.ret)
    /\ pc' = "solved"
    /\ UNCHANGED <<orig, gen>>

\* The Solve menu entry: solve_game, and execute_move on its move string.
SolveGame ==
    /\ pc = "play" /\ Live
    /\ \E sg \in { solve_game(orig, state) } :
           IF sg.move = NULLSTR
           THEN /\ state' = state
                /\ last' = Op("solve_error", 0)
           ELSE \E r \in { execute_move(state, sg.move) } :
                /\ state' = After(r)
                /\ last' = Op(IF r.ret = NULL THEN "badmove" ELSE "solve_game", 0)
    /\ UNCHANGED <<orig, pc, gen>>

\* The top of the body of the for loop: set_blacks, with what its random
\* numbers pick. gen.tries counts these calls at the present black
\* percentage; the program keeps no such count.
SetBlacks(B, r) ==
    /\ pc = "try" /\ Live
    /\ gen.i < MAX_GRIDGEN_TRIES
    /\ state' = set_blacks(state, gen.params, B, r)
    /\ pc' = "blacks"
    /\ last' = Op("set_blacks", 0)
    /\ gen' = [gen EXCEPT !.tries = IF @ < MaxTries THEN @ + 1 ELSE @]
    /\ UNCHANGED orig

PlaceLights(numindices) ==
    /\ pc = "blacks" /\ Live
    /\ state' = place_lights(state, numindices)
    /\ pc' = "lit"
    /\ last' = Op("place_lights", 0)
    /\ UNCHANGED <<orig, gen>>

PlaceNumbers ==
    /\ pc = "lit" /\ Live
    /\ state' = place_numbers(state)
    /\ pc' = "numbered"
    /\ last' = Op("place_numbers", 0)
    /\ UNCHANGED <<orig, gen>>

\* The first puzzle_is_good of a try, and the continue when it fails.
PuzzleIsGood ==
    /\ pc = "numbered" /\ Live
    /\ \E r \in { puzzle_is_good(state, gen.params.recurse) } :
           /\ state' = r.st
           /\ last' = Op(IF r.good THEN "puzzle is good" ELSE "puzzle is bad",
                         r.mdepth)
           /\ pc' = IF r.good THEN "good" ELSE "try"
           /\ gen' = IF r.good THEN gen ELSE [gen EXCEPT !.i = @ + 1]
    /\ UNCHANGED orig

\* The copy stripped of the numbers not used, kept if it is good.
StripUnused ==
    /\ pc = "good" /\ Live
    /\ \E r \in { strip_copy(state, gen.params.recurse) } :
           /\ state' = r.st
           /\ last' = Op("strip_unused_nums", r.mdepth)
    /\ pc' = "stripped"
    /\ UNCHANGED <<orig, gen>>

\* The loop that removes numbers, the check after it, and the continue or
\* the goto that follows.
RemoveNumbers ==
    /\ pc = "stripped" /\ Live
    /\ \E r \in { prune(state, gen.params.recurse, gen.numindices) } :
           /\ state' = r.st
           /\ last' = Op(r.goto, r.mdepth)
           /\ pc' = IF r.goto = "continue" THEN "try" ELSE "goodpuzzle"
           /\ gen' = IF r.goto = "continue" THEN [gen EXCEPT !.i = r.i + 1] ELSE gen
    /\ UNCHANGED orig

\* The end of the for loop: the black percentage raised, and the for loop
\* entered again by the while loop.
RaiseBlackpc ==
    /\ pc = "try" /\ Live
    /\ gen.i >= MAX_GRIDGEN_TRIES
    /\ (gen.params.blackpc >= 90
           \/ gen.params.blackpc < gen.given.blackpc + 5 * MaxRaises)
    /\ gen' = [gen EXCEPT !.i = 0, !.tries = IF @ = NOCOUNT THEN @ ELSE 0,
                          !.params.blackpc = IF @ < 90 THEN @ + 5 ELSE @]
    /\ last' = Op("blackpc", 0)
    /\ UNCHANGED <<state, orig, pc>>

\* The label goodpuzzle: the descriptor written and returned.
ReturnDesc ==
    /\ pc = "goodpuzzle" /\ Live
    /\ \E r \in { encode_desc(state) } :
           /\ state' = r.st
           /\ gen' = [gen EXCEPT !.desc = r.desc, !.i = 0]
    /\ pc' = "desc"
    /\ last' = Op("new_game_desc", 0)
    /\ UNCHANGED orig

\* validate_desc on the descriptor at hand.
ValidateDesc ==
    /\ pc = "desc" /\ Live
    /\ \E err \in { validate_desc(state.w, state.h, gen.desc) } :
           /\ pc' = IF err = VALID THEN "valid" ELSE "invalid"
           /\ last' = Op("validate_desc", IF err = VALID THEN 0 ELSE 1)
    /\ UNCHANGED <<state, orig, gen>>

\* new_game on a descriptor that validate_desc accepted.
NewGame ==
    /\ pc = "valid" /\ Live
    /\ state' = new_game(state.w, state.h, gen.desc)
    /\ orig' = state'
    /\ pc' = "fresh"
    /\ last' = Op("new_game", 0)
    /\ UNCHANGED gen

Play ==
    \/ \E c \in {"L", "I"}, x \in 0 .. (state.w - 1), y \in 0 .. (state.h - 1) :
          Command(c, x, y)
    \/ \E move \in Moves[<<state.w, state.h>>] : MoveString(move)
    \/ \E cx \in 0 .. state.w, cy \in 0 .. (state.h - 1),
          action \in {FLIP_LIGHT, FLIP_IMPOSSIBLE} : Click(cx, cy, action)
    \/ \E allowguess \in BOOLEAN, forceunique \in BOOLEAN :
          DoSolve(allowguess, forceunique)
    \/ SolveGame

Generate ==
    \/ \E B \in BlackPicks(state, gen.params), r \in Percents : SetBlacks(B, r)
    \/ \E numindices \in Shuffles(state.w * state.h) : PlaceLights(numindices)
    \/ PlaceNumbers
    \/ PuzzleIsGood
    \/ StripUnused
    \/ RemoveNumbers
    \/ RaiseBlackpc
    \/ ReturnDesc
    \/ ValidateDesc
    \/ NewGame

Study ==
    \E allowguess \in BOOLEAN, forceunique \in BOOLEAN :
        DoSolveFresh(allowguess, forceunique)

\* The puzzle was made by new_game_desc: numindices is the array it
\* shuffled.
Generated == gen.numindices # <<>>

\* What a cell of a board holds when new_game_desc reaches goodpuzzle: a
\* white cell, as the solver left it, or a black cell with or without a
\* number.
Kinds == {".", "L", "I", "B", "0", "1", "2", "3", "4"}

kind_flags(c) ==
    IF c = "." THEN {}
    ELSE IF c = "L" THEN {F_LIGHT}
    ELSE IF c = "I" THEN {F_IMPOSSIBLE}
    ELSE IF c = "B" THEN {F_BLACK}
    ELSE {F_BLACK, F_NUMBERED, F_NUMBERUSED}

kind_lights(c) ==
    IF c = "L" THEN 1
    ELSE IF IsDigit(c) THEN DigitVal(c) ELSE 0

\* The w by h board whose cell k, row by row, holds kinds[k].
board_of(w, h, kinds) ==
    [new_state(w, h) EXCEPT
        !.flags = [k \in DOMAIN @ |-> kind_flags(kinds[k])],
        !.lights = [k \in DOMAIN @ |-> kind_lights(kinds[k])]]

\* The cells of the long boards that are not always white: the first, and
\* those around the end of a run of 26 white cells.
LongSpots == {0, 25, 26, 27}

\* The boards encoded: every 2x2 board, and 14x2 boards that are white but
\* for their spots.
Boards ==
    { board_of(2, 2, kinds) : kinds \in [0 .. 3 -> Kinds] }
    \cup { board_of(14, 2, [k \in 0 .. 27 |-> IF k \in LongSpots THEN spots[k] ELSE "."]) :
              spots \in [LongSpots -> {".", "B", "3"}] }

\* The characters of the descriptors validated: those of a descriptor, and
\* some that are none.
DescChars == {"a", "b", "c", "d", "e", "z", "0", "4", "B", "5", "A", "S", " "}

MaxDesc == 3

RECURSIVE Strings(_)
\* The strings of DescChars of length n or less.
Strings(n) ==
    IF n = 0 THEN { <<>> }
    ELSE Strings(n - 1)
         \cup { <<c>> \o str : c \in DescChars, str \in Strings(n - 1) }

\* The specification of the descriptor alone: boards at the label
\* goodpuzzle, and strings handed to validate_desc for a 2x2 grid.
CodecInit ==
    /\ \/ /\ state \in Boards
          /\ gen = Played([w |-> state.w, h |-> state.h, desc |-> NULLSTR])
          /\ pc = "goodpuzzle"
          /\ last = Op("goodpuzzle", 0)
       \/ /\ state = new_state(2, 2)
          /\ \E desc \in Strings(MaxDesc) :
                gen = Played([w |-> 2, h |-> 2, desc |-> desc])
          /\ pc = "desc"
          /\ last = Op("desc", 0)
    /\ orig = state

CodecNext == ReturnDesc \/ ValidateDesc \/ NewGame

CodecSpec == CodecInit /\ [][CodecNext]_vars

\* The parameters encoded: sizes of one and two digits, black percentages
\* and symmetries at and beyond the ends of what validate_params accepts.
ParamValues ==
    [w : {1, 2, 3, 12}, h : {1, 2, 12}, blackpc : {4, 5, 20, 100, 101},
     symm : {0 - 1, SYMM_NONE, SYMM_REF2, SYMM_ROT4, SYMM_MAX}, recurse : BOOLEAN]

\* What the structure decode_params writes into held before.
Targets ==
    { [w |-> 7, h |-> 7, blackpc |-> 55, symm |-> SYMM_REF4, recurse |-> TRUE],
      [w |-> 0, h |-> 0, blackpc |-> 0, symm |-> SYMM_NONE, recurse |-> FALSE] }

\* The specification of the parameters alone: gen.params is the structure
\* encoded, gen.given the one decoded into, gen.desc the string.
ParamsInit ==
    /\ state = new_state(2, 2)
    /\ orig = state
    /\ \E params \in ParamValues, target \in Targets :
          gen = [params |-> params, given |-> target, i |-> 0,
                 tries |-> NOCOUNT,
                 numindices |-> <<>>, desc |-> NULLSTR]
    /\ pc = "params"
    /\ last = Op("params", 0)

ValidateParams(full) ==
    /\ pc = "params"
    /\ pc' = IF validate_params(gen.params, full) = VALID
             THEN "accepted" ELSE "rejected"
    /\ last' = Op("validate_params", IF full THEN 1 ELSE 0)
    /\ UNCHANGED <<state, orig, gen>>

EncodeParams(full) ==
    /\ pc = "accepted"
    /\ gen' = [gen EXCEPT !.desc = encode_params(gen.params, full)]
    /\ pc' = "encoded"
    /\ last' = Op("encode_params", IF full THEN 1 ELSE 0)
    /\ UNCHANGED <<state, orig>>

DecodeParams ==
    /\ pc = "encoded"
    /\ gen' = [gen EXCEPT !.given = decode_params(gen.given, gen.desc)]
    /\ pc' = "decoded"
    /\ last' = Op("decode_params", last.ret)
    /\ UNCHANGED <<state, orig>>

ParamsNext ==
    \/ \E full \in BOOLEAN : ValidateParams(full)
    \/ \E full \in BOOLEAN : EncodeParams(full)
    \/ DecodeParams

ParamsSpec == ParamsInit /\ [][ParamsNext]_vars

\* The parameters of the generations followed to their end: a 2x2 grid that
\* is all white at first, and a 2x2 grid with one black cell asked to be
\* hard.
LiveParams ==
    { [w |-> 2, h |-> 2, blackpc |-> 20, symm |-> SYMM_NONE, recurse |-> FALSE],
      [w |-> 2, h |-> 2, blackpc |-> 25, symm |-> SYMM_NONE, recurse |-> TRUE] }

LiveInit ==
    /\ \E params \in LiveParams :
          /\ state = new_state(params.w, params.h)
          /\ \E numindices \in Orders(params.w * params.h) :
                gen = [params |-> params, given |-> params, i |-> 0,
                       tries |-> 0,
                       numindices |-> numindices, desc |-> NULLSTR]
    /\ pc = "try"
    /\ last = Op("new_game_desc", 0)
    /\ orig = state

\* new_game_desc has a step to take: it has not returned, no assertion has
\* failed, and the bound MaxRaises does not stop it.
CanStep ==
    /\ Live
    /\ pc \in {"try", "blacks", "lit", "numbered", "good", "stripped",
               "goodpuzzle", "desc", "valid"}
    /\ pc = "try" /\ gen.i >= MAX_GRIDGEN_TRIES =>
          (gen.params.blackpc >= 90
              \/ gen.params.blackpc < gen.given.blackpc + 5 * MaxRaises)

\* No step of the program: Pending is enabled exactly where Generate is,
\* and tells so without running the generator.
Pending ==
    /\ CanStep
    /\ pc' = "pending"
    /\ UNCHANGED <<state, orig, last, gen>>

\* The program goes on as long as it can: weak fairness of Generate. What
\* the random source gives makes no difference to the parameters of
\* LiveParams: the tries of the first all fail at 20% and all succeed at
\* 25%, the tries of the second all end at the test of mdepth.
Fairness == WF_vars(Pending \/ Generate)

LiveSpec == LiveInit /\ [][Generate]_vars /\ Fairness

\* The end of a black percentage at which every try failed, for every
\* percentage the generator may be given up to 90. On a 10x10 grid tries
\* fail the first puzzle_is_good at any of them, and the random source may
\* give MAX_GRIDGEN_TRIES such tries in a row. The step taken there reads
\* params and i only: the board is left clean.
RaiseSize == 10
RaiseParams ==
    { [w |-> RaiseSize, h |-> RaiseSize, blackpc |-> blackpc,
       symm |-> SYMM_NONE, recurse |-> FALSE] : blackpc \in 5 .. 90 }

RaiseInit ==
    /\ \E params \in RaiseParams :
          /\ state = new_state(params.w, params.h)
          /\ gen = [params |-> params, given |-> params,
                    i |-> MAX_GRIDGEN_TRIES, tries |-> NOCOUNT,
                    numindices |-> [k \in 0 .. (params.w * params.h - 1) |-> k],
                    desc |-> NULLSTR]
    /\ orig = state
    /\ pc = "try"
    /\ last = Op("puzzle is bad", 0)

RaiseSpec == RaiseInit /\ [][RaiseBlackpc]_vars

\* set_blacks on its own: every size up to MaxSide, even and odd, with
\* every symmetry validate_params allows with it, at two percentages.
MaxSide == 3
BlackParams ==
    { params \in [w : 2 .. MaxSide, h : 2 .. MaxSide, blackpc : {40, 70},
                  symm : SYMM_NONE .. SYMM_ROT4, recurse : {FALSE}] :
         validate_params(params, TRUE) = VALID }

BlacksInit ==
    /\ \E params \in BlackParams :
          /\ state = new_state(params.w, params.h)
          /\ gen = [params |-> params, given |-> params, i |-> 0,
                    tries |-> NOCOUNT,
                    numindices |-> [k \in 0 .. (params.w * params.h - 1) |-> k],
                    desc |-> NULLSTR]
    /\ orig = state
    /\ pc = "try"
    /\ last = Op("new_game_desc", 0)

BlacksNext ==
    \E B \in BlackPicks(state, gen.params), r \in Percents : SetBlacks(B, r)

BlacksSpec == BlacksInit /\ [][BlacksNext]_vars

Next == Play \/ Generate \/ Study

Spec == Init /\ [][Next]_vars

\* ------------------------------------------------------------ properties
White(s) == { i \in Cells(s) : F_BLACK \notin s.flags[i] }
LightCells(s) == { i \in Cells(s) : F_LIGHT \in s.flags[i] }
ImpossibleCells(s) == { i \in Cells(s) : F_IMPOSSIBLE \in s.flags[i] }

\* No black cell lies strictly between columns xa and xb of row y.
ClearRow(s, y, xa, xb) ==
    \A x \in (Min({xa, xb}) + 1) .. (Max({xa, xb}) - 1) : ~IsBlackAt(s, x, y)

\* No black cell lies strictly between rows ya and yb of column x.
ClearCol(s, x, ya, yb) ==
    \A y \in (Min({ya, yb}) + 1) .. (Max({ya, yb}) - 1) : ~IsBlackAt(s, x, y)

\* Cells i and j share a row or a column with no black cell between them;
\* a cell sees itself.
Sees(s, i, j) ==
    \/ i = j
    \/ /\ CellY(s, i) = CellY(s, j)
       /\ ClearRow(s, CellY(s, i), CellX(s, i), CellX(s, j))
    \/ /\ CellX(s, i) = CellX(s, j)
       /\ ClearCol(s, CellX(s, i), CellY(s, i), CellY(s, j))

\* How many of the cells of L see cell i.
SeenBy(s, L, i) == Cardinality({ j \in L : Sees(s, i, j) })

Adjacent(s, i, j) ==
    \/ CellY(s, i) = CellY(s, j) /\ CellX(s, i) - CellX(s, j) \in {-1, 1}
    \/ CellX(s, i) = CellX(s, j) /\ CellY(s, i) - CellY(s, j) \in {-1, 1}

\* The white cells of the state in play, as coordinates.
WhiteXY ==
    { xy \in (0 .. (state.w - 1)) \X (0 .. (state.h - 1)) :
         ~IsBlackAt(state, xy[1], xy[2]) }

\* The black cells of the state in play, as coordinates.
BlackXY ==
    { xy \in (0 .. (state.w - 1)) \X (0 .. (state.h - 1)) :
         IsBlackAt(state, xy[1], xy[2]) }

\* C1: in every reachable state each white cell's stored lit count is the
\* number of cells holding LIGHT that share its row or column with no black
\* cell between them, a light counting for its own cell.
C1_LitCountIsLightsSeen ==
    \A i \in White(state) :
        state.lights[i] = SeenBy(state, LightCells(state), i)

\* C1 witness: the solver has run on the state in play and copied a branch
\* back, and a cell without a light is lit twice.
C1_Witness ==
    /\ pc = "play"
    /\ last.op \in {"dosolve", "dosolve unique"}
    /\ state.nlights # NumLights(state)
    /\ \E i \in White(state) : F_LIGHT \notin state.flags[i] /\ state.lights[i] = 2

\* C2: in every reachable state the nlights counter is the number of cells
\* that hold LIGHT, the state the solver leaves after copying a branch back
\* included.
C2_NlightsIsLightCount ==
    state.nlights = NumLights(state)

\* C3: no cell ever holds LIGHT and IMPOSSIBLE at the same time.
C3_LightExcludesImpossible ==
    LightCells(state) \cap ImpossibleCells(state) = {}

\* C3 witness: an L command has just been executed on a cell marked
\* IMPOSSIBLE, and the solver's marks and lights are both on the board.
C3_Witness ==
    /\ last.op = "L on impossible"
    /\ LightCells(state) # {}
    /\ ImpossibleCells(state) # {}

\* C4: a black cell never holds LIGHT, the assertion at the top of set_light
\* never fails, and execute_move returns no state for L and I on a black cell.
C4_NoLightOnBlack ==
    /\ \A i \in Cells(state) :
          ~(F_BLACK \in state.flags[i] /\ F_LIGHT \in state.flags[i])
    /\ state.abort # "set_light"
    /\ pc = "play" =>
          \A c \in {"L", "I"}, x \in 0 .. (state.w - 1), y \in 0 .. (state.h - 1) :
              IsBlackAt(state, x, y)
                  => execute_move(state, Cmd(c, x, y)).ret = NULL

\* C4 witness: the generator's solver has placed lights on a board with a
\* black cell.
C4_Witness ==
    /\ pc = "good"
    /\ White(state) # Cells(state)
    /\ LightCells(state) # {}

\* C5: across every step completed stays true once true, and so does
\* used_solve.
C5_Latches ==
    [][/\ state.completed => state'.completed
       /\ state.used_solve => state'.used_solve]_vars

\* C5 witness: an accepted move has left a completed state whose grid is
\* not correct.
C5_Witness ==
    /\ last.op = "move"
    /\ state.completed
    /\ ~grid_correct(state)

\* The move strings execute_move must refuse in the state in play: empty,
\* an unknown command letter, coordinates unparsable or out of range, a
\* black target, junk after a command.
Refused ==
    { <<>>, <<"X">>, <<";">>, <<"L">>, <<"L", "0", ",">>, <<"I", ",", "0">>,
      <<"L", "0", ",", "0", "X">>, <<"S", "L", "0", ",", "0">> }
    \cup OutOfGrid(state.w, state.h)
    \cup { Cmd(c, xy[1], xy[2]) : c \in {"L", "I"}, xy \in BlackXY }

\* C6: execute_move returns no state for every refused move string, alone or
\* (but for the empty one) after well-formed commands, and whenever it
\* returns no state the input state is as it was in every field.
C6_RejectedLeavesInput ==
    pc = "play" =>
        /\ \A m \in Refused \cup { a \o <<";">> \o b :
                                     a \in Leads(state.w, state.h),
                                     b \in Refused \ {<<>>} } :
              \A r \in { execute_move(state, m) } :
                  r.ret = NULL /\ r.inp = state
        /\ \A m \in Moves[<<state.w, state.h>>] :
              \A r \in { execute_move(state, m) } :
                  r.ret = NULL => r.inp = state

\* C6 witness: a move string has just been rejected in a state that holds a
\* light and a mark.
C6_Witness ==
    /\ last.op = "badmove"
    /\ LightCells(state) # {}
    /\ ImpossibleCells(state) # {}

\* C7 as stated: execute_move returns no state for L on a cell marked
\* IMPOSSIBLE and for I on a cell holding LIGHT.
C7_ExecuteMoveRefuses ==
    pc = "play" =>
        \A xy \in WhiteXY :
            /\ F_IMPOSSIBLE \in flagsAt(state, xy[1], xy[2])
                  => execute_move(state, Cmd("L", xy[1], xy[2])).ret = NULL
            /\ F_LIGHT \in flagsAt(state, xy[1], xy[2])
                  => execute_move(state, Cmd("I", xy[1], xy[2])).ret = NULL

\* C7 amended: interpret_move makes no move for a light on a cell marked
\* IMPOSSIBLE nor for a mark on a cell holding LIGHT; execute_move accepts
\* both commands, L replacing the mark by a light and I the light by a mark.
C7_InterpretMoveRefuses ==
    pc = "play" =>
        \A xy \in WhiteXY :
            /\ F_IMPOSSIBLE \in flagsAt(state, xy[1], xy[2])
                  => /\ interpret_move(state, xy[1], xy[2], FLIP_LIGHT) = NULLSTR
                     /\ \A r \in { execute_move(state, Cmd("L", xy[1], xy[2])) } :
                           /\ r.ret # NULL
                           /\ F_LIGHT \in flagsAt(r.ret, xy[1], xy[2])
                           /\ F_IMPOSSIBLE \notin flagsAt(r.ret, xy[1], xy[2])
            /\ F_LIGHT \in flagsAt(state, xy[1], xy[2])
                  => /\ interpret_move(state, xy[1], xy[2], FLIP_IMPOSSIBLE) = NULLSTR
                     /\ \A r \in { execute_move(state, Cmd("I", xy[1], xy[2])) } :
                           /\ r.ret # NULL
                           /\ F_IMPOSSIBLE \in flagsAt(r.ret, xy[1], xy[2])
                           /\ F_LIGHT \notin flagsAt(r.ret, xy[1], xy[2])

\* C7 witness: the solver has marked a white neighbour of the 0 clue
\* IMPOSSIBLE and an L command on a marked cell has been executed.
C7_Witness ==
    /\ orig = new_game(2, 2, <<"0", "c">>)
    /\ F_NUMBERUSED \in state.flags[0]
    /\ last.op = "L on impossible"
    /\ F_LIGHT \in state.flags[1] \/ F_LIGHT \in state.flags[2]

\* The flag word an L command leaves on a cell that held f.
AfterL(f) ==
    (f \ {F_IMPOSSIBLE, F_LIGHT}) \cup (IF F_LIGHT \in f THEN {} ELSE {F_LIGHT})

\* The flag word an I command leaves on a cell that held f.
AfterI(f) ==
    (f \ {F_IMPOSSIBLE, F_LIGHT})
        \cup (IF F_IMPOSSIBLE \in f THEN {} ELSE {F_IMPOSSIBLE})

\* C8: a command on a white cell is accepted; L leaves IMPOSSIBLE clear and
\* LIGHT negated, I leaves LIGHT clear and IMPOSSIBLE negated, and the flags
\* of every other cell are as they were.
C8_FlagsAfterCommand ==
    pc = "play" =>
        \A xy \in WhiteXY :
            /\ \A r \in { execute_move(state, Cmd("L", xy[1], xy[2])) } :
                  /\ r.ret # NULL
                  /\ r.ret.flags =
                        [state.flags EXCEPT ![GRID(state, xy[1], xy[2])] = AfterL(@)]
            /\ \A r \in { execute_move(state, Cmd("I", xy[1], xy[2])) } :
                  /\ r.ret # NULL
                  /\ r.ret.flags =
                        [state.flags EXCEPT ![GRID(state, xy[1], xy[2])] = AfterI(@)]

\* C8 witness: a command has been accepted in a state which holds a light
\* and a mark, so that every case of both commands arises.
C8_Witness ==
    /\ last.op \in {"move", "I on light"}
    /\ ~state.used_solve
    /\ LightCells(state) # {}
    /\ ImpossibleCells(state) # {}

\* C9: whenever solve_game returns a move string, execute_move accepts it on
\* the current state and returns a state whose lights are those of the
\* solver's solved state, with completed and used_solve set.
C9_SolveMoveSolves ==
    pc = "play" =>
        \A sg \in { solve_game(orig, state) } :
            sg.move # NULLSTR =>
                \A r \in { execute_move(state, sg.move) } :
                    /\ r.ret # NULL
                    /\ LightCells(r.ret) = LightCells(sg.solved)
                    /\ r.ret.completed
                    /\ r.ret.used_solve

\* C9 witness: the Solve entry has been used and has left a completed,
\* correct state that still holds a mark.
C9_Witness ==
    /\ last.op = "solve_game"
    /\ state.completed /\ state.used_solve
    /\ grid_correct(state)
    /\ ImpossibleCells(state) # {}

\* L is a valid completion of state s: it extends the lights placed, puts
\* no light on a cell marked IMPOSSIBLE, lights every white cell, has no two
\* lights that see each other and satisfies every clue.
ValidCompletion(s, L) ==
    /\ LightCells(s) \subseteq L
    /\ L \cap ImpossibleCells(s) = {}
    /\ \A i \in White(s) : SeenBy(s, L, i) >= 1
    /\ \A i \in L : SeenBy(s, L, i) = 1
    /\ \A i \in Cells(s) :
          F_NUMBERED \in s.flags[i]
              => s.lights[i] = Cardinality({ j \in L : Adjacent(s, i, j) })

NumCompletions(s) ==
    Cardinality({ L \in SUBSET White(s) : ValidCompletion(s, L) })

\* C10: whenever dosolve, asked for uniqueness, returns n >= 0 on the state
\* in play, n is the number of valid completions of that state; on the
\* clueless all-white 2x2 grid it returns 2.
C10_UniqueCountsCompletions ==
    pc = "play" =>
        /\ \A allowguess \in BOOLEAN :
              \A r \in { dosolve(state, allowguess, TRUE, 0) } :
                  r.ret >= 0 => r.ret = NumCompletions(state)
        /\ state = new_game(2, 2, <<"d">>) => dosolve(state, TRUE, TRUE, 0).ret = 2

\* C10 witness: the solver, asked for uniqueness, has returned 2 on the
\* clueless all-white 2x2 grid.
C10_Witness ==
    /\ orig = new_game(2, 2, <<"d">>)
    /\ last = Op("dosolve unique", 2)
    /\ NumLights(state) = 2

\* Read from the flags alone, s is solved: every white cell is seen by a
\* light, no light is seen by another, and every clue is the number of
\* lights next to it.
Solved(s) ==
    /\ \A i \in White(s) : SeenBy(s, LightCells(s), i) >= 1
    /\ \A i \in LightCells(s) : SeenBy(s, LightCells(s), i) = 1
    /\ \A i \in Cells(s) :
          F_NUMBERED \in s.flags[i]
              => s.lights[i] = Cardinality({ j \in LightCells(s) : Adjacent(s, i, j) })

\* C11: whenever dosolve returns a value above 0 on the state in play, with
\* or without guessing, in either uniqueness mode, and whenever solve_sub
\* does at any recursion depth, the state handed back satisfies
\* grid_correct: every white cell is lit, no light is lit by another and
\* every clue is its number of adjacent lights.
C11_PositiveIsSolved ==
    pc = "play" =>
        \A forceunique \in BOOLEAN :
            /\ \A allowguess \in BOOLEAN :
                  \A r \in { dosolve(state, allowguess, forceunique, 0) } :
                      r.ret > 0 => grid_correct(r.st) /\ Solved(r.st)
            /\ \A depth \in 1 .. MAXRECURSE :
                  \A r \in { solve_sub(state, forceunique, MAXRECURSE, depth, 0) } :
                      r.ret > 0 => grid_correct(r.st) /\ Solved(r.st)

\* C11 witness: the solver has returned 1 on the clueless all-white 2x2
\* grid with the solution of its second branch copied back, which left
\* nlights behind.
C11_Witness ==
    /\ orig = new_game(2, 2, <<"d">>)
    /\ last.op = "dosolve"
    /\ last.ret > 0
    /\ state.nlights # NumLights(state)
    /\ grid_correct(state)

\* C12: whenever dosolve returns 0, in either uniqueness mode, the state it
\* was given has no valid completion.
C12_ZeroIsInsoluble ==
    /\ pc = "play" =>
          \A allowguess \in BOOLEAN, forceunique \in BOOLEAN :
              dosolve(state, allowguess, forceunique, 0).ret = 0
                  => NumCompletions(state) = 0
    /\ pc = "solved" /\ last.ret = 0 => NumCompletions(orig) = 0

\* C13: every puzzle new_game_desc returns has exactly one solution: on the
\* puzzle fresh from new_game, dosolve with forceunique returns exactly 1,
\* with the guessing the parameters ask for and with guessing allowed, and
\* the puzzle has exactly one completion.
C13_GeneratedIsUnique ==
    (pc = "fresh" /\ Generated) =>
        /\ dosolve(state, gen.params.recurse, TRUE, 0).ret = 1
        /\ dosolve(state, TRUE, TRUE, 0).ret = 1
        /\ NumCompletions(state) = 1

\* A generated puzzle with a clue, solved with forceunique.
C13_Witness ==
    /\ pc = "solved" /\ Generated
    /\ last = Op("dosolve unique", 1)
    /\ \E i \in Cells(orig) : F_NUMBERED \in orig.flags[i]
    /\ grid_correct(state)

\* C14: on every puzzle new_game_desc returns, the deepest level the solver
\* records (*maxdepth, from 0) is 0 when params->recurse is false and at
\* least 1 when it is true; a puzzle made with recurse true is not solved
\* without guessing.
C14_DepthMatchesRecurse ==
    (pc = "fresh" /\ Generated) =>
        IF gen.params.recurse
        THEN /\ dosolve(state, TRUE, TRUE, 0).maxdepth >= 1
             /\ dosolve(state, FALSE, FALSE, 0).ret <= 0
        ELSE /\ dosolve(state, FALSE, TRUE, 0).maxdepth = 0
             /\ dosolve(state, TRUE, TRUE, 0).maxdepth = 0

\* A puzzle made with recurse true and one made with recurse false, with a
\* black cell, fresh from new_game.
C14_Witness ==
    /\ pc = "fresh" /\ Generated /\ gen.params.recurse
    /\ dosolve(state, TRUE, TRUE, 0).ret = 1

C14_WitnessEasy ==
    /\ pc = "fresh" /\ Generated /\ ~gen.params.recurse
    /\ \E i \in Cells(state) : F_BLACK \in state.flags[i]
    /\ dosolve(state, FALSE, TRUE, 0).ret = 1

\* The state d new_game made holds the black cells and the numbers of the
\* board b and nothing else.
SameBoard(b, d) ==
    /\ d.abort = RUNNING
    /\ d.w = b.w /\ d.h = b.h
    /\ \A k \in Cells(b) :
          /\ d.flags[k] = b.flags[k] \cap {F_BLACK, F_NUMBERED}
          /\ d.lights[k] = IF F_NUMBERED \in b.flags[k] THEN b.lights[k] ELSE 0
    /\ d.nlights = 0
    /\ ~d.completed

CellsOfChar(c) == IF IsLetter(c) THEN LetterOrd(c) ELSE 1

RECURSIVE CellsOf(_)
CellsOf(desc) ==
    IF desc = <<>> THEN 0 ELSE CellsOfChar(Head(desc)) + CellsOf(Tail(desc))

\* Every character is 0 to 4, B or a letter a to z, and the cells described
\* total wh.
WellFormed(wh, desc) ==
    /\ \A j \in 1 .. Len(desc) :
          desc[j] \in {"0", "1", "2", "3", "4", "B"} \/ IsLetter(desc[j])
    /\ CellsOf(desc) = wh

C16_WitnessOthers ==
    \/ pc = "invalid" /\ gen.desc = <<"b", "5", "a">>
    \/ pc = "invalid" /\ gen.desc = <<"b", "B">>
    \/ pc = "invalid" /\ gen.desc = <<"d", "0">>
    \/ pc = "valid" /\ gen.desc = <<"a", "4", "b">>

\* C17: for parameters validate_params accepts with full set, decode_params
\* on the string encode_params writes with full set gives back the same w,
\* h, blackpc, symm and recurse, whatever the structure written into held.
C17_DecodeInvertsEncodeParams ==
    /\ (pc = "params" /\ validate_params(gen.params, TRUE) = VALID) =>
          \A target \in Targets \cup {gen.given, gen.params} :
              decode_params(target, encode_params(gen.params, TRUE)) = gen.params
    /\ (pc = "decoded" /\ last.ret = 1
           /\ validate_params(gen.params, TRUE) = VALID) =>
          gen.given = gen.params

\* Parameters of two digits with a symmetry and recurse set, decoded into a
\* structure that held other values.
C17_Witness ==
    /\ pc = "decoded" /\ last = Op("decode_params", 1)
    /\ gen.desc = <<"1", "2", "x", "1", "2", "b", "1", "0", "0", "s", "4", "r">>
    /\ gen.given = gen.params
    /\ gen.params.symm = SYMM_ROT4 /\ gen.params.recurse

\* C18: parameters with blackpc = 100 pass validate_params, and no
\* assertion fails while new_game_desc works with them: place_lights
\* returns normally on the all-black grid.
C18_AllBlackIsHandled ==
    gen.params.blackpc = 100 =>
        /\ validate_params(gen.params, TRUE) = VALID
        /\ state.abort = RUNNING

\* C19: new_game_desc does not modify the parameters it is given: when it
\* has returned, w, h, blackpc, symm and recurse of the caller's structure
\* are what they were when it was called.
C19_ParamsUnchanged ==
    (Generated /\ pc \in {"desc", "valid", "fresh", "solved"}) =>
        gen.params = gen.given

\* The 3x3 grid whose centre is black with the number 4, the rest white.
CentreFour == new_game(3, 3, <<"d", "4", "d">>)

\* The cells next to the centre, and the corners.
Midpoints == {1, 3, 5, 7}
Corners == {0, 2, 6, 8}

\* The original statement of C20: on the 3x3 grid with a 4 at its centre
\* the solver places the four lights, the overlap test then fails and
\* dosolve returns 0.
C20_CentreFourHasNoSolution ==
    (pc = "solved" /\ orig = CentreFour) =>
        /\ last.ret = 0
        /\ grid_overlap(state)

\* C20, as the program behaves: on the 3x3 grid with a 4 at its centre one
\* pass of the solver places lights on the four cells next to the centre
\* and nowhere else; every corner is then lit twice, no light is lit by
\* another, so grid_overlap is false, the grid is correct and dosolve
\* returns 1, in every mode.
C20_CentreFourIsSolved ==
    /\ (pc = "fresh" /\ orig = CentreFour) =>
          \A i \in Cells(state) :
              (F_LIGHT \in solve_pass([st |-> state, ncanplace |-> 0,
                                       didstuff |-> FALSE], 0).st.flags[i])
                  <=> (i \in Midpoints)
    /\ (pc = "solved" /\ orig = CentreFour) =>
          /\ last.ret = 1
          /\ \A i \in Cells(state) : (F_LIGHT \in state.flags[i]) <=> (i \in Midpoints)
          /\ \A i \in Corners : state.lights[i] = 2
          /\ \A i \in Midpoints : state.lights[i] = 1
          /\ ~grid_overlap(state)
          /\ grid_correct(state)

\* The 3x3 grid with a 4 at its centre after dosolve with forceunique.
C20_Witness ==
    /\ pc = "solved" /\ orig = CentreFour
    /\ last = Op("dosolve unique", 1)
    /\ NumLights(state) = 4

\* C21: for every black layout and every shuffle, place_lights returns with
\* every white cell lit and no light lit by another, and neither of its
\* assertions fails.
C21_PlaceLightsValid ==
    pc = "lit" =>
        /\ state.abort = RUNNING
        /\ grid_lit(state)
        /\ ~grid_overlap(state)

\* new_game_desc has returned its descriptor.
Returned == pc \in {"desc", "valid", "invalid", "fresh", "solved"}

\* The for loop has run out at a black percentage that the bound MaxRaises
\* does not let the model raise.
Cut ==
    /\ pc = "try" /\ gen.i >= MAX_GRIDGEN_TRIES
    /\ gen.params.blackpc < 90
    /\ gen.params.blackpc >= gen.given.blackpc + 5 * MaxRaises

\* C22: with a fair random source new_game_desc eventually returns a
\* descriptor, for every parameter set validate_params accepts (here: unless
\* an assertion has failed before, or the model's bound on raises is met).
C22_EventuallyReturns ==
    <>(Returned \/ ~Live \/ Cut)


\* C23: at one black percentage the generator calls set_blacks at most
\* MAX_GRIDGEN_TRIES times before it raises the percentage, in easy and in
\* hard mode, the tries discarded at the last test of the difficulty
\* counted with the others.
C23_TriesPerLevel == gen.tries # NOCOUNT => gen.tries <= MAX_GRIDGEN_TRIES

\* C24: the black percentage is never raised above 90: a level at which
\* every try failed raises it by 5, and from no starting percentage of 5 to
\* 90, those of 86 to 89 among them, does it come to stand above 90.
C24_NeverAbove90 == gen.params.blackpc <= 90

\* What the while (1) loop of solve_sub has reached when dosolve, entered
\* on board, comes to the end of its first iteration without a continue.
FirstStall(board) == solve_passes(ClearAll(board, F_NUMBERUSED, 0))

\* solve_sub goes on to guess, the depth allowing: no assertion failed, no
\* overlap, the grid not correct, and a light could be placed somewhere.
MustGuess(pass) ==
    /\ pass.st.abort = RUNNING
    /\ ~grid_overlap(pass.st)
    /\ ~grid_correct(pass.st)
    /\ pass.ncanplace # 0

\* The cells where a light can still be placed.
Candidates(board) ==
    {c \in (0 .. board.w - 1) \X (0 .. board.h - 1) :
        could_place_light(flagsAt(board, c[1], c[2]), lightsAt(board, c[1], c[2]))}

\* The candidates that would light the most unlit cells.
Brightest(board) ==
    {c \in Candidates(board) :
        \A d \in Candidates(board) :
            WouldLight(board, d[1], d[2]) <= WouldLight(board, c[1], c[2])}

\* The first of the brightest by columns: smallest x, then smallest y.
FirstByColumns(board) ==
    CHOOSE c \in Brightest(board) :
        \A d \in Brightest(board) : c[1] < d[1] \/ (c[1] = d[1] /\ c[2] <= d[2])

\* The first of the brightest by rows: smallest y, then smallest x.
FirstByRows(board) ==
    CHOOSE c \in Brightest(board) :
        \A d \in Brightest(board) : c[2] < d[2] \/ (c[2] = d[2] /\ c[1] <= d[1])

Chosen(best) == <<best.bestx, best.besty>>

\* C25 as stated: when the solver has to guess, the cell it branches on is
\* a cell where a light can still be placed that would light the most
\* unlit cells, and among such cells the first in row-major order
\* (smallest y, then smallest x).
C25_GuessFirstByRows ==
    (pc = "play" /\ Live /\ MustGuess(FirstStall(state))) =>
        /\ Candidates(FirstStall(state).st) # {}
        /\ Chosen(best_guess(FirstStall(state).st)) = FirstByRows(FirstStall(state).st)

\* C25 amended: when the solver has to guess, the cell it branches on is
\* a cell where a light can still be placed that would light the most
\* unlit cells, bestn is that number, and among such cells it is the first
\* in the order of the scan, which goes by columns (smallest x, then
\* smallest y).
C25_GuessFirstByColumns ==
    (pc = "play" /\ Live /\ MustGuess(FirstStall(state))) =>
        /\ Candidates(FirstStall(state).st) # {}
        /\ Chosen(best_guess(FirstStall(state).st))
               = FirstByColumns(FirstStall(state).st)
        /\ best_guess(FirstStall(state).st).bestn
               = WouldLight(FirstStall(state).st,
                            FirstByColumns(FirstStall(state).st)[1],
                            FirstByColumns(FirstStall(state).st)[2])

\* The solver has to guess on a board where the two orders part, and has
\* chosen the cell that is first by columns.
C25_Witness ==
    /\ pc = "play" /\ Live /\ MustGuess(FirstStall(state))
    /\ Candidates(FirstStall(state).st) # {}
    /\ FirstByRows(FirstStall(state).st) # FirstByColumns(FirstStall(state).st)
    /\ Chosen(best_guess(FirstStall(state).st)) = FirstByColumns(FirstStall(state).st)

IsBlack(board, x, y) == F_BLACK \in flagsAt(board, x, y)

\* The black cells of board are kept by the symmetry symm.
Symmetric(board, symm) ==
    \A x \in 0 .. (board.w - 1), y \in 0 .. (board.h - 1) :
        /\ symm = SYMM_REF2 =>
              IsBlack(board, x, y) = IsBlack(board, x, board.h - 1 - y)
        /\ symm = SYMM_ROT2 =>
              IsBlack(board, x, y) = IsBlack(board, board.w - 1 - x, board.h - 1 - y)
        /\ symm = SYMM_REF4 =>
              /\ IsBlack(board, x, y) = IsBlack(board, x, board.h - 1 - y)
              /\ IsBlack(board, x, y) = IsBlack(board, board.w - 1 - x, y)
        /\ symm = SYMM_ROT4 =>
              /\ board.w = board.h
              /\ IsBlack(board, x, y) = IsBlack(board, board.w - 1 - y, x)

\* C26: after set_blacks the black cells are kept by the symmetry asked
\* for, at every size allowed with it: the reflection top to bottom for
\* SYMM_REF2, the half turn for SYMM_ROT2 (the middle row of an odd height
\* too), both reflections for SYMM_REF4, the quarter turn for SYMM_ROT4 on
\* square grids (the centre of an odd one being its own image).
C26_BlacksSymmetric ==
    pc = "blacks" => /\ Live
                     /\ Symmetric(state, gen.params.symm)

\* set_blacks has made a 3x3 board for SYMM_ROT2 with a black cell in the
\* middle row that is not the centre.
C26_Witness ==
    /\ pc = "blacks" /\ Live
    /\ gen.params.symm = SYMM_ROT2
    /\ state.w = 3 /\ state.h = 3
    /\ IsBlack(state, 0, 1)
    /\ ~IsBlack(state, 1, 1)

\* set_blacks has made a 3x3 board for SYMM_ROT4 with the centre black and
\* a corner black.
C26_WitnessQuarter ==
    /\ pc = "blacks" /\ Live
    /\ gen.params.symm = SYMM_ROT4
    /\ state.w = 3 /\ state.h = 3
    /\ IsBlack(state, 1, 1)
    /\ IsBlack(state, 0, 0)

\* dosolve on board with *maxdepth 0 at the call: with guessing the deepest
\* level entered is at most MAXRECURSE; without guessing it is 0, and when
\* the first passes stall with a light still to be placed the result is
\* -1 and the board is as the passes left it, no guess marked on it.
DepthKept(board, forceunique) ==
    /\ dosolve(board, TRUE, forceunique, 0).maxdepth <= MAXRECURSE
    /\ dosolve(board, FALSE, forceunique, 0).maxdepth = 0
    /\ MustGuess(FirstStall(board)) =>
          /\ dosolve(board, FALSE, forceunique, 0).ret = -1
          /\ dosolve(board, FALSE, forceunique, 0).st = FirstStall(board).st

\* C27: solve_sub is never entered deeper than its limit. With guessing
\* the depth reported is at most 5; without guessing the solver makes no
\* copy and no guess, reports depth 0, and returns -1 when its passes
\* stall while some cell could still take a light. Checked for the boards
\* in play as the user has marked them, and for the puzzles solved fresh
\* from new_game.
C27_DepthWithinLimit ==
    /\ (pc = "play" /\ Live) => \A forceunique \in BOOLEAN : DepthKept(state, forceunique)
    /\ pc \in {"fresh", "solved"} => \A forceunique \in BOOLEAN : DepthKept(orig, forceunique)

\* The solver, run with guessing on a fresh puzzle for a unique solution,
\* has come to its limit: it was entered at depth MAXRECURSE, stalled
\* there and returned -1.
C27_Witness ==
    /\ pc = "solved"
    /\ last = Op("dosolve unique", -1)
    /\ dosolve(orig, TRUE, TRUE, 0).maxdepth = MAXRECURSE
    /\ dosolve(orig, TRUE, TRUE, 0).ret = -1
    /\ dosolve(orig, TRUE, TRUE, 0).st = state

\* The solver, run without guessing on a board in play, has stalled at
\* once and returned -1.
C27_WitnessNoGuess ==
    /\ pc = "play" /\ Live
    /\ last = Op("dosolve", -1)
    /\ MustGuess(FirstStall(state))
    /\ dosolve(state, FALSE, FALSE, 0).ret = -1

\* C28: whenever the solver comes to its guessing step a cell to branch on
\* exists: the assertions bestn > 0 and bestx >= 0 && besty >= 0 never
\* fail, whatever lights and IMPOSSIBLE marks the user has put on the
\* board. No run of the solver has left the assertion failed, and on every
\* board in play on which the solver would guess the loop finds a cell.
C28_GuessCellExists ==
    /\ state.abort # "bestn > 0"
    /\ (pc = "play" /\ Live /\ MustGuess(FirstStall(state))) =>
          /\ best_guess(FirstStall(state).st).bestn > 0
          /\ best_guess(FirstStall(state).st).bestx >= 0
          /\ best_guess(FirstStall(state).st).besty >= 0

\* The puzzle with one command of the user carried out on it.
UserBoard(c, x, y) == After(execute_move(orig, Cmd(c, x, y)))

\* The solver has run with guessing on a board the user had marked and on
\* which it had to guess, and it found a solution that holds an IMPOSSIBLE
\* mark.
C28_Witness ==
    /\ pc = "play" /\ Live
    /\ last = Op("dosolve", 1)
    /\ \E k \in DOMAIN state.flags : F_IMPOSSIBLE \in state.flags[k]
    /\ \E c \in {"L", "I"}, x \in 0 .. (orig.w - 1), y \in 0 .. (orig.h - 1) :
          /\ UserBoard(c, x, y) # orig
          /\ MustGuess(FirstStall(UserBoard(c, x, y)))
          /\ dosolve(UserBoard(c, x, y), TRUE, FALSE, 0).st = state

\* Every cell with LIGHT on before has it on after, and every cell with
\* IMPOSSIBLE on before has it on after.
MarksKept(before, after) ==
    \A k \in DOMAIN before.flags :
        /\ F_LIGHT \in before.flags[k] => F_LIGHT \in after.flags[k]
        /\ F_IMPOSSIBLE \in before.flags[k] => F_IMPOSSIBLE \in after.flags[k]

\* C29: the solver only adds marks. Whatever the board and the result of
\* dosolve (positive, 0 or -1), a cell with LIGHT on entry has LIGHT on
\* return and a cell with IMPOSSIBLE on entry has IMPOSSIBLE on return,
\* also when the planes of the copy were written back over the state.
C29_SolverOnlyAdds ==
    [][(last'.op \in {"dosolve", "dosolve unique"} /\ pc \in {"play", "fresh"})
          => /\ state'.abort = RUNNING
             /\ MarksKept(state, state')]_vars

\* dosolve has run on a board the user had marked: its first guess, the
\* cell marked IMPOSSIBLE, had no solution, the copy with a light there
\* was solved and written back, and the user's mark is still there.
C29_Witness ==
    /\ pc = "play" /\ Live
    /\ last = Op("dosolve", 1)
    /\ \E c \in {"L", "I"}, x \in 0 .. (orig.w - 1), y \in 0 .. (orig.h - 1) :
          /\ UserBoard(c, x, y) # orig
          /\ MustGuess(FirstStall(UserBoard(c, x, y)))
          /\ solve_sub(or_flag(FirstStall(UserBoard(c, x, y)).st,
                               best_guess(FirstStall(UserBoard(c, x, y)).st).bestx,
                               best_guess(FirstStall(UserBoard(c, x, y)).st).besty,
                               F_IMPOSSIBLE),
                       FALSE, MAXRECURSE, 1, 0).ret <= 0
          /\ dosolve(UserBoard(c, x, y), TRUE, FALSE, 0).st = state
          /\ MarksKept(UserBoard(c, x, y), state)

\* The puzzle of after is that of before: the same cells are BLACK, the
\* same cells are NUMBERED, and every black cell holds the same number.
SamePuzzle(before, after) ==
    /\ after.w = before.w /\ after.h = before.h
    /\ \A k \in DOMAIN before.flags :
          /\ (F_BLACK \in after.flags[k]) = (F_BLACK \in before.flags[k])
          /\ (F_NUMBERED \in after.flags[k]) = (F_NUMBERED \in before.flags[k])
          /\ F_BLACK \in before.flags[k] => after.lights[k] = before.lights[k]

\* C30: moves and runs of the solver never alter the puzzle: after any
\* sequence of execute_move and dosolve on a decoded puzzle the BLACK
\* cells, the NUMBERED cells and every clue number are those of the
\* initial state.
C30_PuzzleUnchanged ==
    (pc \in {"play", "fresh", "solved"} /\ Live) => SamePuzzle(orig, state)

\* The solver has run on a board in play and lights stand in the row and
\* in the column of a clue, which still holds its number 3.
C30_Witness ==
    /\ pc = "play" /\ Live
    /\ last.op = "dosolve"
    /\ state.nlights >= 2
    /\ \E k \in DOMAIN state.flags :
          /\ F_NUMBERED \in state.flags[k]
          /\ state.lights[k] = 3
          /\ orig.lights[k] = 3
====
